---- MODULE Spec2Model ----
(***************************************************************************)
(* A model of api-query's corpus-iteration run (src/src/bin/api-query.rs): *)
(* the construction of the query plan, the bounded-concurrency submission  *)
(* loop of `main`, the tasks running RunQuery::run with a pooled client,   *)
(* await_one_task, and the log writer thread of src/src/log_csv.rs.        *)
(***************************************************************************)
EXTENDS Integers, Sequences, FiniteSets, TLC

\* ---------------------------------------------------------------- bounds
\* Largest corpus (number of lines of the queries file) of a dry run.
MaxN == 2
\* Largest --repeat of a dry run.
MaxR == 3
\* Largest plan (N * repeat) that is executed with the output dropped and
\* no log file.
MaxPlan == 3
\* Largest plan that is executed with output or with a log file.
MaxPlanOut == 2
\* Largest value given to --concurrency.
MaxConc == 2
\* Largest value given to --max-errors.
MaxBudget == 1
\* Largest number of chunks a response body is streamed in.
MaxChunks == 1
\* Largest number of data rows of a log file that is written and read back.
MaxRows == 2
\* Largest number of data rows of each of the two logs that are compared.
MaxLogRows == 3
\* Largest number of bytes of a body whose checksum is computed.
MaxBytes == 3
\* Largest number of chunks a checksum is computed from.
MaxAdds == 3
\* Largest number of rows that follow the long run of a log.
MaxTail == 2

\* Option<u16>: None, or Some(n)
None == <<"None">>
Some(n) == <<"Some", n>>

\* The HTTP statuses the endpoint answers with: one success, one non-success.
Statuses == {200, 404}

OutputModes == {"Print", "Outdir", "Drop"}

VARIABLES
    \* ---- the options of Command::Iter and what main derives from them
    nqueries,          \* queries.borrow_queries().len()
    repeat,            \* --repeat
    dry_run,           \* --dry-run
    concurrency,       \* concurrency.unwrap_or(1).max(1)
    max_errors,        \* --max-errors
    collect_errors,    \* --collect-errors
    output_mode,       \* OutputMode::from_options
    \* ---- the plan
    query_references,  \* Vec<QueryReference>, 0-based query_index values
    shuffle_i,         \* the swaps --randomize still has to make (0: none)
    query_counters,    \* the closure state of query_references_with_repetitions
    pos,               \* number of items the iterator has yielded
    printed_plan,      \* what --dry-run has printed
    \* ---- the scheduler loop
    pc,                \* position of main
    cur,               \* the plan entry taken from the iterator, not yet spawned
    tasks,             \* spawned tasks in spawn order (the JoinHandles and their futures)
    running_tasks,     \* the counter of main
    acc,               \* num_errors, errors, status_tally, stderr, records sent
    twin,              \* the same run under the opposite --collect-errors
    \* ---- the client pool
    items,             \* PoolInner::items
    n_clients,         \* number of times new_item was called
    \* ---- the log writer
    writer,            \* "none" | "pending" | "running" | "failed" | "finished" | "killed"
    chan,              \* the mpsc channel's queue
    rows,              \* data rows written to the log file
    \* ---- a log file written by LogCsv and read back by LogCsvReader
    format,            \* "normal" (LogCsvNormalFormat) | "extended"
    records,           \* the records handed to write_row, in order
    file_header,       \* the header row of the file (<<>>: not created yet)
    file_rows,         \* the data rows of the file, each a sequence of fields
    line0,             \* LogCsvReader::line0
    nread,             \* number of data rows read_record has consumed
    next_item,         \* what LogCsvReader::next has yielded last
    lpc,               \* position of the program that writes or reads the file
    \* ---- api-query-log compare (src/src/bin/api-query-log.rs)
    cmp_opts,          \* --queries given, and the references --ignore matches
    log_a,             \* the data rows of the first log, in file order
    log_b,             \* the data rows of the second log
    sums_a,            \* the Sums of the first log
    sums_b,            \* the Sums of the second log
    cmp,               \* the counters and the output of Command::Compare
    cpc,               \* position of the compare command
    \* ---- the start of api-query's main, before the command's loop
    setup,             \* --warm-up, HTTP requests sent so far, the setup error
    \* ---- one call of RunQuery::run, statement by statement
    rq,                \* its arguments, its position, the output file, its result
    \* ---- one checksum computed with MyCrc (src/src/my_crc.rs)
    dg,                \* the bytes, the chunks added so far, the digest, the Crc
    \* ---- one corpus built by Queries::_new (src/src/types.rs)
    corpus             \* the query count, the outcome, an index and its display

filevars == <<format, records, file_header, file_rows, line0, nread, next_item,
              lpc>>
planvars == <<query_references, shuffle_i, query_counters, pos, printed_plan>>
\* What an iteration run never changes: its options, the log file of the
\* log tool, the comparison of two logs, and what main did before the command.
cmpvars == <<cmp_opts, log_a, log_b, sums_a, sums_b, cmp, cpc>>
optvars == <<nqueries, repeat, dry_run, concurrency, max_errors,
             collect_errors, output_mode, filevars, cmpvars, setup, rq, dg,
             corpus>>
schedvars == <<pc, cur, tasks, running_tasks, acc, twin>>
poolvars == <<items, n_clients>>
logvars == <<writer, chan, rows>>
vars == <<optvars, planvars, schedvars, poolvars, logvars>>

\* ------------------------------------------------------------------ plan

\* The cap without .max(1).
Concurrency_Unclamped(opt) == IF opt[1] = "None" THEN 1 ELSE opt[2]

\* concurrency.unwrap_or(1).max(1)
Concurrency(opt) ==
    LET c == IF opt[1] = "None" THEN 1 ELSE opt[2]
    IN  IF c >= 1 THEN c ELSE 1

\* for query_index in queries.query_index_range() { query_references.push(..) }
RECURSIVE PushRange(_, _, _)
PushRange(v, query_index, n) ==
    IF query_index >= n THEN v
    ELSE PushRange(Append(v, query_index), query_index + 1, n)

\* for _ in 0..repeat { ... }
RECURSIVE RepeatPush(_, _, _)
RepeatPush(v, k, n) ==
    IF k = 0 THEN v ELSE RepeatPush(PushRange(v, 0, n), k - 1, n)

\* The vector built with the outer loop running one time too few.
QueryReferences_FromOne(n, r) == RepeatPush(<<>>, IF r = 0 THEN 0 ELSE r - 1, n)

\* The vector query_references before the shuffle.
QueryReferences(n, r) == RepeatPush(<<>>, r, n)

Swap(v, i, j) == [v EXCEPT ![i] = v[j], ![j] = v[i]]

\* The item with the counter read after its increment.
NextInstance_AfterIncrement ==
    LET query_index == query_references[pos + 1]
    IN  [query_reference |-> query_index,
         repetition |-> query_counters[query_index] + 1]

\* The item the iterator of query_references_with_repetitions yields next.
NextInstance ==
    LET query_index == query_references[pos + 1]
    IN  [query_reference |-> query_index, repetition |-> query_counters[query_index]]

\* The closure state after yielding that item.
CountersAfterNext ==
    [query_counters EXCEPT ![query_references[pos + 1]] = @ + 1]

NoEntry == [query_reference |-> -1, repetition |-> -1]

\* ------------------------------------------------------- await_one_task

EmptyTally == [s \in {} |-> 0]

\* The tally with a vacant entry inserted as 0.
TallyAdd_VacantZero(tally, status) ==
    IF status \in DOMAIN tally
    THEN [tally EXCEPT ![status] = @ + 1]
    ELSE [s \in DOMAIN tally \cup {status} |->
            IF s = status THEN 0 ELSE tally[s]]

\* status_tally.entry(status): Occupied => += 1, Vacant => insert(1)
TallyAdd(tally, status) ==
    IF status \in DOMAIN tally
    THEN [tally EXCEPT ![status] = @ + 1]
    ELSE [s \in DOMAIN tally \cup {status} |->
            IF s = status THEN 1 ELSE tally[s]]

RECURSIVE TallySum(_)
TallySum(tally) ==
    IF DOMAIN tally = {} THEN 0
    ELSE LET s == CHOOSE x \in DOMAIN tally : TRUE
         IN  tally[s] + TallySum([x \in DOMAIN tally \ {s} |-> tally[x]])

\* Result<RunQueryResult>: Ok(RunQueryResult {status, outsize, ..}) or Err(e)
OkResult(status, outsize) ==
    [kind |-> "Ok", status |-> status, outsize |-> outsize, msg |-> ""]
ErrResult(msg) ==
    [kind |-> "Err", status |-> 0, outsize |-> 0, msg |-> msg]
NoResult == [kind |-> "None", status |-> 0, outsize |-> 0, msg |-> ""]

\* The record with the repetition left at 0.
LogCsvRecord_FirstRepetition(entry, result) ==
    [query_reference |-> entry.query_reference, repetition |-> 0,
     result |-> result]

\* LogCsvRecord(query_reference, repetition, .., LogCsvResult): Ok(status,
\* outsize, crc) or Err(e_str)
LogCsvRecord(entry, result) ==
    [query_reference |-> entry.query_reference,
     repetition |-> entry.repetition,
     result |-> result]

NoRecord == LogCsvRecord(NoEntry, NoResult)

\* The budget check with >= for >.
BudgetExceeded_AtLeast(num_errors, budget) == num_errors >= budget

\* if num_errors > max_errors { bail!("too many errors ..") }
BudgetExceeded(num_errors, budget) == num_errors > budget

\* A non-200 status taken for a hard error, as check_status does for
\* Command::Stdin.
IsHardError_StatusChecked(r) == r.kind # "Ok" \/ r.status # 200

\* match run_query_result { Ok(RunQueryResult {..}) => .., Err(e) => .. }
IsHardError(r) == r.kind # "Ok"

\* The increment moved into the branch that prints the error.
CountError_WhenPrinted(num_errors, collect) ==
    IF collect THEN num_errors ELSE num_errors + 1

\* num_errors += 1, whatever collect_errors is
CountError(num_errors, collect) == num_errors + 1

\* num_errors, errors and status_tally of main; stderr counts the lines
\* eprintln! has written; sent is the record the call handed to logger.send
\* (NoRecord: none); outcome is "Ok" or names the error the call returned.
InitAcc ==
    [num_errors |-> 0, errors |-> <<>>, stderr |-> 0,
     status_tally |-> EmptyTally, sent |-> NoRecord, outcome |-> "Ok"]

\* One call of the closure await_one_task on the result `tr` that tasks.next()
\* yielded, from the counters `a`. `collect` is --collect-errors, `has_logger`
\* is logger.is_some(), `time_ok` is whether end.duration_since(start) is Ok,
\* `send_ok` is whether the channel's receiver still exists.
AwaitOneTask(a, tr, collect, has_logger, time_ok, send_ok) ==
    LET r == tr.run_query_result
        a0 == [a EXCEPT !.sent = NoRecord]
        a1 == IF ~IsHardError(r)
              THEN [a0 EXCEPT !.status_tally = TallyAdd(@, r.status)]
              ELSE [a0 EXCEPT !.num_errors = CountError(@, collect),
                              !.errors = IF collect THEN Append(@, r.msg) ELSE @,
                              !.stderr = IF collect THEN @ ELSE @ + 1]
        a2 == IF ~has_logger THEN a1
              ELSE IF ~time_ok THEN [a1 EXCEPT !.outcome = "time difference"]
              ELSE IF ~send_ok THEN [a1 EXCEPT !.outcome = "send"]
              ELSE [a1 EXCEPT !.sent =
                        LogCsvRecord(tr.query_reference_with_repetition, r)]
    IN  IF a2.outcome # "Ok" THEN a2
        ELSE IF BudgetExceeded(a2.num_errors, max_errors)
             THEN [a2 EXCEPT !.outcome = "too many errors"]
             ELSE a2

\* What the two settings of --collect-errors are claimed to agree on.
Decisions(a) ==
    [num_errors |-> a.num_errors, status_tally |-> a.status_tally,
     sent |-> a.sent, outcome |-> a.outcome]

\* The counters of a run from its decisions (its error texts left out).
FromDecisions(d) ==
    [num_errors |-> d.num_errors, errors |-> <<>>, stderr |-> 0,
     status_tally |-> d.status_tally, sent |-> d.sent, outcome |-> d.outcome]

\* ------------------------------------------------------- RunQuery::run

\* What the endpoint and the operating system do to one request: the status
\* of the response, the number of chunks of its body (one byte each), and the
\* operation that fails when run gets to it ("none": no operation fails).
Failures ==
    {"none", "send", "read", "open", "write", "newline", "flush", "remove", "rename"}
Envs == [status : Statuses, nchunks : 0..MaxChunks, fail : Failures]

\* The loop ending with what it has counted when a chunk cannot be read.
RECURSIVE ChunkLoop_Partial(_, _, _, _)
ChunkLoop_Partial(env, k, outsize, writes) ==
    IF k < env.nchunks
    THEN IF writes /\ env.fail = "write" THEN -2
         ELSE ChunkLoop_Partial(env, k + 1, outsize + 1, writes)
    ELSE outsize

\* while let Some(bytes) = res.chunk().await? { outsize += bytes.len(); .. }
\* from chunk k on: the size counted, or -1 when a chunk cannot be read or
\* (with `writes`) cannot be written to `out`.
RECURSIVE ChunkLoop(_, _, _, _)
ChunkLoop(env, k, outsize, writes) ==
    IF k < env.nchunks
    THEN IF writes /\ env.fail = "write" THEN -2
         ELSE ChunkLoop(env, k + 1, outsize + 1, writes)
    ELSE IF env.fail = "read" THEN -1 ELSE outsize

\* The rest of the non-drop branch after the loop counted `inner` bytes: the
\* newline after a non-200 body on stdout, the flush, and the removal of an
\* empty 200 file or the renaming of any other file. "" when nothing fails.
AfterBody(mode, env, inner) ==
    IF env.status # 200 /\ mode = "Print" /\ env.fail = "newline"
    THEN "writing to stdout"
    ELSE IF env.fail = "flush" THEN "flush"
    ELSE IF mode # "Outdir" THEN ""
    ELSE IF inner = 0 /\ env.status = 200
         THEN IF env.fail = "remove" THEN "removing output file" ELSE ""
         ELSE IF env.fail = "rename" THEN "renaming" ELSE ""

\* RunQuery::run: the Result it returns under output mode `mode` when the
\* request meets `env`.
Run(mode, env) ==
    IF env.fail = "send" THEN ErrResult("posting the query")
    ELSE IF mode = "Drop"
    THEN LET outsize == ChunkLoop(env, 0, 0, FALSE)
         IN  IF outsize = -1 THEN ErrResult("reading the result")
             ELSE OkResult(env.status, outsize)
    ELSE IF mode = "Outdir" /\ env.fail = "open"
         THEN ErrResult("opening the output file")
         ELSE LET outsize == 0
                  inner == ChunkLoop(env, 0, 0, TRUE)
              IN  IF inner = -1 THEN ErrResult("reading the result")
                  ELSE IF inner = -2 THEN ErrResult("writing to stdout")
                  ELSE IF AfterBody(mode, env, inner) # ""
                       THEN ErrResult(AfterBody(mode, env, inner))
                       ELSE OkResult(env.status, outsize)

\* ------------------------------------------------------------ the tasks

\* A task as tokio::spawn creates it: its future has not been polled yet.
NewTask(entry) ==
    [query_reference_with_repetition |-> entry, st |-> "spawned", client |-> 0,
     run_query_result |-> NoResult]

\* What is left of a task once tasks.next() has yielded its result.
Reaped(task) ==
    [NewTask(task.query_reference_with_repetition) EXCEPT !.st = "reaped"]

Ended == {"ready", "reaped", "cancelled"}

\* The handle a loop joining the handles in spawn order would wait for.
ReadyTasks_InOrder(ts) ==
    {t \in DOMAIN ts : /\ ts[t].st = "ready"
                       /\ \A u \in 1..(t - 1) : ts[u].st = "reaped"}

\* The handles tasks.next() can yield: those of the completed tasks
ReadyTasks(ts) == {t \in DOMAIN ts : ts[t].st = "ready"}

\* The capacity check with > for >=.
AtCapacity_Above(running, cap) == running > cap

\* if running_tasks >= concurrency { await_one_task(..).await?; }
AtCapacity(running, cap) == running >= cap

\* Pool::enqueue
Enqueue(its, item) == Append(its, item)

\* The idle list when only the end of run returns the item, and the early
\* returns of ? do not.
ItemsAfterRun_OkOnly(its, item, result) ==
    IF result.kind = "Ok" THEN Enqueue(its, item) ELSE its

\* The idle list after RunQuery::run has returned `result`: run owns the
\* PoolGuard, so it is dropped, and Drop enqueues the item, on every return.
ItemsAfterRun(its, item, result) == Enqueue(its, item)

\* Tasks are polled while main is in its loops; once main has returned an
\* error the runtime shuts down and drops them.
Polling == pc \in {"loop", "await_cap", "drain"}

\* The idle list when get_item reads the last item and leaves it there.
PopItem_Peek(its) == its

\* inner.items.pop(): the idle list without its last item
PopItem(its) == SubSeq(its, 1, Len(its) - 1)

\* A get_item that calls the factory whatever the idle list holds.
NeedsNewItem_Always(its) == TRUE

\* inner.items.pop().unwrap_or_else(|| (inner.new_item)()): the factory is
\* called when pop yields None
NeedsNewItem(its) == its = <<>>

\* let client = client_pool.get_item();  (Pool::get_item, under the mutex)
TaskGetItem(t) ==
    /\ Polling
    /\ tasks[t].st = "spawned"
    /\ IF ~NeedsNewItem(items)
       THEN /\ tasks' = [tasks EXCEPT ![t].st = "running",
                                      ![t].client = items[Len(items)]]
            /\ items' = PopItem(items)
            /\ UNCHANGED n_clients
       ELSE /\ tasks' = [tasks EXCEPT ![t].st = "running",
                                      ![t].client = n_clients + 1]
            /\ n_clients' = n_clients + 1
            /\ UNCHANGED items
    /\ UNCHANGED <<optvars, planvars, pc, cur, running_tasks, acc, twin, logvars>>

\* The results run can return under each output mode.
RunResults == [mode \in OutputModes |-> {Run(mode, env) : env \in Envs}]

\* rq.run(client, ..).await returns `result`: the guard is dropped and the
\* task's JoinHandle completes with TaskResult {.., run_query_result, ..}.
TaskReturns(t, result) ==
    /\ Polling
    /\ tasks[t].st = "running"
    /\ tasks' = [tasks EXCEPT ![t] =
                    [@ EXCEPT !.st = "ready", !.client = 0,
                              !.run_query_result = result]]
    /\ items' = ItemsAfterRun(items, tasks[t].client, result)
    /\ UNCHANGED <<n_clients, optvars, planvars, pc, cur, running_tasks,
                   acc, twin, logvars>>

TaskReturnsOk(t, result) == result.kind = "Ok" /\ TaskReturns(t, result)

TaskReturnsErr(t, result) == result.kind = "Err" /\ TaskReturns(t, result)

\* main has returned with an error: the runtime drops the futures of the tasks
\* that have not completed, and with them the guards they hold.
TaskCancelled(t) ==
    /\ pc = "aborted"
    /\ tasks[t].st \notin Ended
    /\ tasks' = [tasks EXCEPT ![t] = [@ EXCEPT !.st = "cancelled", !.client = 0]]
    /\ items' = IF tasks[t].client # 0 THEN Enqueue(items, tasks[t].client)
                ELSE items
    /\ UNCHANGED <<n_clients, optvars, planvars, pc, cur, running_tasks, acc,
                   twin, logvars>>

\* ------------------------------------------------------- the log writer

\* A receiver that yields the newest record of the queue.
Recv_Newest(ch) == [entry |-> ch[Len(ch)], rest |-> SubSeq(ch, 1, Len(ch) - 1)]

\* channel_rx yields the oldest record of the queue (std::sync::mpsc is FIFO)
Recv(ch) == [entry |-> Head(ch), rest |-> Tail(ch)]

\* for entry in channel_rx { log_file.write_row(entry)?; }: one row written
WriterWriteRow ==
    /\ writer = "running"
    /\ chan # <<>>
    /\ rows' = Append(rows, Recv(chan).entry)
    /\ chan' = Recv(chan).rest
    /\ UNCHANGED <<writer, optvars, planvars, schedvars, poolvars>>

\* write_row fails: the thread returns the error and channel_rx is dropped
\* with what is still queued.
WriterWriteErr ==
    /\ writer = "running"
    /\ chan # <<>>
    /\ writer' = "failed"
    /\ chan' = <<>>
    /\ UNCHANGED <<rows, optvars, planvars, schedvars, poolvars>>

\* A finish() that joins the thread while it still holds the sender.
SenderDropped_OnReturnOnly == pc = "aborted"

\* The sender is dropped by finish(), or with `logger` when main returns.
SenderDropped == pc \in {"finish", "aborted"}

\* The channel is closed and empty: the loop ends, log_file.flush() is the
\* thread's result.
WriterFlush(ok) ==
    /\ writer = "running"
    /\ chan = <<>>
    /\ SenderDropped
    /\ writer' = IF ok THEN "finished" ELSE "failed"
    /\ UNCHANGED <<chan, rows, optvars, planvars, schedvars, poolvars>>

\* main has returned an error without logger.finish(): the thread is not
\* joined, and the process exits while it may still be running; what is
\* queued is never written.
WriterKilled ==
    /\ writer = "running"
    /\ pc = "aborted"
    /\ writer' = "killed"
    /\ chan' = <<>>
    /\ UNCHANGED <<rows, optvars, planvars, schedvars, poolvars>>

\* ------------------------------------------------------------------ main

\* if randomize { query_references.shuffle(&mut rng); }: one swap of the
\* shuffle, of the element at shuffle_i with the one at a drawn index j <= shuffle_i.
ShuffleStep(j) ==
    /\ pc = "shuffle"
    /\ shuffle_i >= 2
    /\ j \in 1..shuffle_i
    /\ query_references' = Swap(query_references, shuffle_i, j)
    /\ shuffle_i' = shuffle_i - 1
    /\ UNCHANGED <<query_counters, pos, printed_plan, optvars, schedvars,
                   poolvars, logvars>>

\* The plan is final: main goes on to the dry run or to the submission loop.
PlanReady ==
    /\ pc = "shuffle"
    /\ shuffle_i < 2
    /\ shuffle_i' = 0
    /\ pc' = IF dry_run THEN "dry_run" ELSE "loop"
    /\ UNCHANGED <<query_references, query_counters, pos, printed_plan, optvars,
                   cur, tasks, running_tasks, acc, twin, poolvars, logvars>>

\* if dry_run { for .. in query_references_with_repetitions(..) { println!(..) } }
DryRunPrint ==
    /\ pc = "dry_run"
    /\ pos < Len(query_references)
    /\ printed_plan' = Append(printed_plan, NextInstance)
    /\ query_counters' = CountersAfterNext
    /\ pos' = pos + 1
    /\ UNCHANGED <<query_references, shuffle_i, optvars, schedvars, poolvars,
                   logvars>>

\* .. return Ok(())
DryRunReturn ==
    /\ pc = "dry_run"
    /\ pos = Len(query_references)
    /\ pc' = "done"
    /\ UNCHANGED <<optvars, planvars, cur, tasks, running_tasks, acc, twin,
                   poolvars, logvars>>

\* One pass of the submission loop below the cap: the iterator yields an
\* entry, its task is spawned and pushed.
Submit ==
    /\ pc = "loop"
    /\ pos < Len(query_references)
    /\ ~AtCapacity(running_tasks, concurrency)
    /\ tasks' = Append(tasks, NewTask(NextInstance))
    /\ running_tasks' = running_tasks + 1
    /\ query_counters' = CountersAfterNext
    /\ pos' = pos + 1
    /\ UNCHANGED <<query_references, shuffle_i, printed_plan, optvars, pc, cur,
                   acc, twin, poolvars, logvars>>

\* One pass of the submission loop at the cap: the iterator yields an entry
\* and main suspends in await_one_task.
CapacityWait ==
    /\ pc = "loop"
    /\ pos < Len(query_references)
    /\ AtCapacity(running_tasks, concurrency)
    /\ cur' = NextInstance
    /\ query_counters' = CountersAfterNext
    /\ pos' = pos + 1
    /\ pc' = "await_cap"
    /\ UNCHANGED <<query_references, shuffle_i, printed_plan, optvars, tasks,
                   running_tasks, acc, twin, poolvars, logvars>>

\* A channel made by mpsc::sync_channel(1): send waits while a record is queued.
CanSend_Bounded(ch) == Len(ch) < 1

\* let (channel_tx, channel_rx) = mpsc::channel(): the queue is unbounded,
\* channel_tx.send(record) never waits for the receiver.
CanSend(ch) == TRUE

\* What a call of await_one_task that yields task t does to the state main
\* shares with it, apart from tasks and pc. The twin takes the same call
\* under the opposite --collect-errors.
Reap(t, time_ok) ==
    LET has_logger == writer # "none"
        send_ok == writer # "failed"
        a == AwaitOneTask(acc, tasks[t], collect_errors, has_logger, time_ok, send_ok)
    IN  /\ a.sent # NoRecord => CanSend(chan)
        /\ acc' = a
        /\ twin' = Decisions(AwaitOneTask(FromDecisions(twin), tasks[t],
                                          ~collect_errors, has_logger, time_ok,
                                          send_ok))
        /\ chan' = IF a.sent # NoRecord THEN Append(chan, a.sent) ELSE chan
        /\ UNCHANGED <<writer, rows>>

\* The result of await_one_task ignored.
GoesOn_Always(outcome) == TRUE

\* The ? after await_one_task(..).await: main goes on only after Ok(())
GoesOn(outcome) == outcome = "Ok"

\* await_one_task returns at the cap; on Ok the pending entry is spawned.
AwaitCap(t, time_ok) ==
    /\ pc = "await_cap"
    /\ t \in ReadyTasks(tasks)
    /\ Reap(t, time_ok)
    /\ IF GoesOn(acc'.outcome)
       THEN /\ tasks' = Append([tasks EXCEPT ![t] = Reaped(@)], NewTask(cur))
            /\ running_tasks' = (running_tasks - 1) + 1
            /\ pc' = "loop"
       ELSE /\ tasks' = [tasks EXCEPT ![t] = Reaped(@)]
            /\ running_tasks' = running_tasks - 1
            /\ pc' = "aborted"
    /\ cur' = NoEntry
    /\ UNCHANGED <<optvars, planvars, poolvars>>

\* The iterator is exhausted: the submission loop ends.
LoopEnd ==
    /\ pc = "loop"
    /\ pos = Len(query_references)
    /\ pc' = "drain"
    /\ UNCHANGED <<optvars, planvars, cur, tasks, running_tasks, acc, twin,
                   poolvars, logvars>>

\* while running_tasks > 0 { await_one_task(..).await?; }
Drain(t, time_ok) ==
    /\ pc = "drain"
    /\ running_tasks > 0
    /\ t \in ReadyTasks(tasks)
    /\ Reap(t, time_ok)
    /\ tasks' = [tasks EXCEPT ![t] = Reaped(@)]
    /\ running_tasks' = running_tasks - 1
    /\ pc' = IF GoesOn(acc'.outcome) THEN "drain" ELSE "aborted"
    /\ UNCHANGED <<optvars, planvars, cur, poolvars>>

\* The drain loop ends: with a logger main calls finish(), which drops the
\* sender and joins the thread; without one it prints the summary.
DrainEnd ==
    /\ pc = "drain"
    /\ running_tasks = 0
    /\ pc' = IF writer = "none" THEN "done" ELSE "finish"
    /\ UNCHANGED <<optvars, planvars, cur, tasks, running_tasks, acc, twin,
                   poolvars, logvars>>

\* thread.join() returns the thread's result: logger.finish()? fails, or main
\* prints the summary and returns Ok(()).
FinishJoin ==
    /\ pc = "finish"
    /\ writer \in {"finished", "failed"}
    /\ pc' = IF writer = "finished" THEN "done" ELSE "finish_failed"
    /\ UNCHANGED <<optvars, planvars, cur, tasks, running_tasks, acc, twin,
                   poolvars, logvars>>

\* ---------------------------------------------------------- the log file

\* A field of a row is a sequence of characters.
Digits == <<"0", "1", "2", "3", "4", "5", "6", "7", "8", "9">>

\* n.to_string() of an unsigned integer
RECURSIVE Dec(_)
Dec(n) ==
    IF n < 10 THEN <<Digits[n + 1]>>
    ELSE Dec(n \div 10) \o <<Digits[(n % 10) + 1]>>

IsDigit(c) == \E d \in 0..9 : Digits[d + 1] = c
DigitVal(c) == CHOOSE d \in 0..9 : Digits[d + 1] = c

\* s.parse() of an unsigned integer: -1 stands for the parse error
RECURSIVE ParseDec(_)
ParseDec(s) ==
    IF s = <<>> \/ \E i \in DOMAIN s : ~IsDigit(s[i]) THEN -1
    ELSE IF Len(s) = 1 THEN DigitVal(s[1])
    ELSE 10 * ParseDec(SubSeq(s, 1, Len(s) - 1)) + DigitVal(s[Len(s)])

\* s.split_once(c): the parts before and after the first c, <<>> if there is none
SplitOnce(s, c) ==
    IF \A i \in DOMAIN s : s[i] # c THEN <<>>
    ELSE LET i == CHOOSE j \in DOMAIN s :
                     s[j] = c /\ \A k \in 1..(j - 1) : s[k] # c
         IN  <<SubSeq(s, 1, i - 1), SubSeq(s, i + 1, Len(s))>>

\* The nearest integer to a / b (b > 0, a >= 0)
RoundDiv(a, b) == (a + b \div 2) \div b

\* An f64 has 53 significant bits; the seconds since the epoch of a present
\* time take 31 of them, which leaves 22 for the fraction of the second: the
\* f64 values of such times are the multiples of 2^-22 s, here called ticks.
TicksPerSec == 2 ^ 22
NanosPerSec == 10 ^ 9

\* duration_since(UNIX_EPOCH).as_secs_f64(): a SystemTime, given by the
\* nanoseconds of its second, as the nearest f64, given in ticks.
AsSecsF64(nanos) == RoundDiv(nanos * TicksPerSec, NanosPerSec)

\* Duration::from_secs_f64(x): the f64 of `ticks` ticks in nanoseconds
FromSecsF64(ticks) == RoundDiv(ticks * NanosPerSec, TicksPerSec)

\* write!(f, "{seconds}") of an f64 prints the shortest decimal that parses
\* back to the same f64, and str::parse::<f64> reads it back: the text of an
\* f64 is modelled by the decimal text of its number of ticks.
F64ToString(ticks) == Dec(ticks)
F64FromStr(s) == ParseDec(s)

\* impl Display for UnixTimeWrap / impl FromStr for UnixTimeWrap
UnixTimeToString(nanos) == F64ToString(AsSecsF64(nanos))
UnixTimeFromStr(s) ==
    IF F64FromStr(s) = -1 THEN -1 ELSE FromSecsF64(F64FromStr(s))

\* impl Display for QueryReference: the 1-based line number
QueryReferenceToString(query_index) == Dec(query_index + 1)

\* impl FromStr for QueryReference: u64::from_str, then checked_sub(1)
QueryReferenceFromStr(s) ==
    LET n == ParseDec(s)
    IN  IF n = -1 THEN -1 ELSE IF n < 1 THEN -1 ELSE n - 1

\* StatusCode's Display: the number, a space, the canonical reason
CanonicalReason(status) ==
    IF status = 200 THEN <<"O", "K">>
    ELSE <<"N", "o", "t", " ", "F", "o", "u", "n", "d">>
StatusToString(status) == Dec(status) \o <<" ">> \o CanonicalReason(status)

\* impl Display for Crc / impl FromStr for Crc
CrcToString(crc) == <<"c", "r", "c", ":">> \o Dec(crc)
CrcFromStr(s) ==
    LET parts == SplitOnce(s, ":")
    IN  IF parts = <<>> THEN -1
        ELSE IF parts[1] # <<"c", "r", "c">> THEN -1
        ELSE ParseDec(parts[2])

\* The query string of a line of the queries file (LogCsvExtendedFormat).
QueryString(query_index) == <<"q">> \o Dec(query_index)

\* LogCsvNormalFormat::NUM_COLS
NUM_COLS == 10

\* LogCsvNormalFormat::HEADER
HEADER ==
    <<"line in query file", "repetition", "start", "end", "d", "Ok/Err",
      "status", "length", "crc", "error">>

\* Format::header: LogCsvExtendedFormat appends "query string"
Header(fmt) == IF fmt = "extended" THEN Append(HEADER, "query string") ELSE HEADER

\* LogCsvResult::Ok(status, length, crc) and LogCsvResult::Err(e)
LogCsvResultOk(status, length, crc) ==
    [kind |-> "Ok", status |-> status, length |-> length, crc |-> crc, msg |-> <<>>]
LogCsvResultErr(e) ==
    [kind |-> "Err", status |-> 0, length |-> 0, crc |-> 0, msg |-> e]

\* The result columns of write_row: "Ok", status, length, crc, "" or
\* "Err", "", "", "", e
ResultColumns(res) ==
    IF res.kind = "Ok"
    THEN <<<<"O", "k">>, StatusToString(res.status), Dec(res.length),
           CrcToString(res.crc), <<>>>>
    ELSE <<<<"E", "r", "r">>, <<>>, <<>>, <<>>, res.msg>>

\* The slice written in normal mode one column short.
RecordUsed_Nine(record, fmt) ==
    IF fmt = "extended" THEN record ELSE SubSeq(record, 1, 9)

\* record_used: all 11 columns with a queries file, else &record[..10]
RecordUsed(record, fmt) ==
    IF fmt = "extended" THEN record ELSE SubSeq(record, 1, 10)

\* LogCsv::write_row: the fields of the row written for the record `values`
WriteRow(values, fmt) ==
    LET record == <<QueryReferenceToString(values.query_reference),
                    Dec(values.repetition),
                    UnixTimeToString(values.start),
                    UnixTimeToString(values.end),
                    F64ToString(values.d)>>
                  \o ResultColumns(values.result)
                  \o <<IF fmt = "extended" THEN QueryString(values.query_reference)
                       ELSE <<>>>>
    IN  RecordUsed(record, fmt)

NoLogRecord ==
    [query_reference |-> -1, repetition |-> -1, start |-> -1, end |-> -1,
     d |-> -1, result |-> LogCsvResultErr(<<>>)]

\* What LogCsvReader::next yields: Some(Ok(record)), or Some(Err(e)) where e
\* names the file and a row index or does not, or None.
ItemRecord(rec) ==
    [kind |-> "Record", record |-> rec, names_file |-> FALSE, index |-> 0]
ItemError(what, names_file, index) ==
    [kind |-> what, record |-> NoLogRecord, names_file |-> names_file,
     index |-> index]
NoItem == [kind |-> "None", record |-> NoLogRecord, names_file |-> FALSE, index |-> 0]

\* LogCsvNormalFormat::parse_row
ParseRow(row) ==
    LET line == QueryReferenceFromStr(row[1])
        repetition == ParseDec(row[2])
        start == UnixTimeFromStr(row[3])
        end == UnixTimeFromStr(row[4])
        d == F64FromStr(row[5])
        ok_err == row[6]
        status_parts == SplitOnce(row[7], " ")
        status_code == IF status_parts = <<>> THEN -1 ELSE ParseDec(status_parts[1])
        length == ParseDec(row[8])
        crc == CrcFromStr(row[9])
        rec(res) == [query_reference |-> line, repetition |-> repetition,
                     start |-> start, end |-> end, d |-> d, result |-> res]
    IN  IF -1 \in {line, repetition, start, end, d}
        THEN ItemError("ParseError", FALSE, 0)
        ELSE IF ok_err = <<"O", "k">>
        THEN IF -1 \in {status_code, length, crc}
             THEN ItemError("ParseError", FALSE, 0)
             ELSE ItemRecord(rec(LogCsvResultOk(status_code, length, crc)))
        ELSE IF ok_err = <<"E", "r", "r">>
        THEN ItemRecord(rec(LogCsvResultErr(row[10])))
        ELSE ItemError("ParseError", FALSE, 0)

\* A reader that takes a row of the header's field count as it is.
ReaderItem_HeaderWidth(row, header, l0) ==
    IF Len(row) # Len(header) THEN ItemError("CsvError", FALSE, 0)
    ELSE ParseRow(row)

\* impl Iterator for LogCsvReader, next() on the data row `row`: the
\* csv::Reader made by from_reader is not flexible, so read_record fails on a
\* row whose field count differs from the header's, and that error, which
\* knows no path, is passed on with the empty context; a row of the header's
\* count that is not NUM_COLS fields gets the reader's own error, which names
\* self.path and self.line0 + 1; any other row goes to parse_row.
ReaderItem(row, header, l0) ==
    IF Len(row) # Len(header) THEN ItemError("CsvError", FALSE, 0)
    ELSE IF Len(row) # NUM_COLS THEN ItemError("ColumnsError", TRUE, l0 + 1)
    ELSE ParseRow(row)

\* The variables of the iteration run.
runvars == <<nqueries, repeat, dry_run, concurrency, max_errors,
             collect_errors, output_mode, planvars, schedvars, poolvars,
             logvars>>
\* What writing and reading one log file leaves alone.
itervars == <<runvars, cmpvars, setup, rq, dg, corpus>>

\* LogCsv::create: the file is opened and the header row is written
LogCreate ==
    /\ lpc = "create"
    /\ file_header' = Header(format)
    /\ lpc' = "writing"
    /\ UNCHANGED <<format, records, file_rows, line0, nread, next_item, itervars>>

\* log_file.write_row(entry) for the next record
LogWriteRow ==
    /\ lpc = "writing"
    /\ Len(file_rows) < Len(records)
    /\ file_rows' = Append(file_rows, WriteRow(records[Len(file_rows) + 1], format))
    /\ UNCHANGED <<format, records, file_header, line0, nread, next_item, lpc,
                   itervars>>

\* log_file.flush(): the file is complete
LogFlush ==
    /\ lpc = "writing"
    /\ Len(file_rows) = Len(records)
    /\ lpc' = "written"
    /\ UNCHANGED <<format, records, file_header, file_rows, line0, nread,
                   next_item, itervars>>

\* Between the run and the reading the file is edited or cut: data row k
\* loses its last field.
FileEdited(k) ==
    /\ lpc = "written"
    /\ k \in DOMAIN file_rows
    /\ \A i \in DOMAIN file_rows : Len(file_rows[i]) = Len(file_header)
    /\ file_rows' = [file_rows EXCEPT ![k] = SubSeq(@, 1, Len(@) - 1)]
    /\ UNCHANGED <<format, records, file_header, line0, nread, next_item, lpc,
                   itervars>>

\* LogCsvReader::open
ReaderOpen ==
    /\ lpc = "written"
    /\ line0' = 0
    /\ nread' = 0
    /\ lpc' = "reading"
    /\ UNCHANGED <<format, records, file_header, file_rows, next_item, itervars>>

\* One pass of `for record in LogCsvReader::open(path)? { let record =
\* record?; .. }`: next() yields the item of the next data row, and the
\* caller returns the error if it is one.
ReaderNext ==
    /\ lpc = "reading"
    /\ nread < Len(file_rows)
    /\ next_item' = ReaderItem(file_rows[nread + 1], file_header, line0)
    /\ nread' = nread + 1
    /\ lpc' = IF next_item'.kind = "Record" THEN "reading" ELSE "read_failed"
    /\ UNCHANGED <<format, records, file_header, file_rows, line0, itervars>>

\* read_record returns Ok(false): next() yields None and the loop ends
ReaderEnd ==
    /\ lpc = "reading"
    /\ nread = Len(file_rows)
    /\ next_item' = NoItem
    /\ lpc' = "read_done"
    /\ UNCHANGED <<format, records, file_header, file_rows, line0, nread,
                   itervars>>

\* ------------------------------------------------------- the reconciler

\* AutoVec::new: the fill value and the empty vector (index i of the code
\* is vec[i + 1] here)
AutoVecNew(fill) == [fill |-> fill, vec |-> <<>>]

\* if self.vec.len() <= i { self.vec.resize_with(i + 1, || fill) }
AutoVecExtended(av, i) ==
    IF Len(av.vec) <= i
    THEN [av EXCEPT !.vec = av.vec \o [k \in 1..(i + 1 - Len(av.vec)) |-> av.fill]]
    ELSE av

\* A set that cuts the vector after index i.
AutoVecSet_Truncating(av, i, val) ==
    [av EXCEPT !.vec = SubSeq(AutoVecExtended(av, i).vec, 1, i) \o <<val>>]

\* AutoVec::set
AutoVecSet(av, i, val) == [AutoVecExtended(av, i) EXCEPT !.vec[i + 1] = val]

\* AutoVec::get_copy
AutoVecGetCopy(av, i) == IF i < Len(av.vec) THEN av.vec[i + 1] ELSE av.fill

\* An increment that leaves the counter where it is.
AutoVecSaturatingInc_Stuck(av, i) == AutoVecExtended(av, i)

\* An increment that wraps around in u8.
AutoVecSaturatingInc_Wrapping(av, i) ==
    LET e == AutoVecExtended(av, i)
    IN  [e EXCEPT !.vec[i + 1] = (@ + 1) % 2 ^ 8]

\* AutoVec::saturating_inc on u8 counters: the AutoVec after the call (the
\* value returned is its entry i)
AutoVecSaturatingInc(av, i) ==
    LET e == AutoVecExtended(av, i)
        val == e.vec[i + 1]
        new_val == IF val + 1 > 2 ^ 8 - 1 THEN 2 ^ 8 - 1 ELSE val + 1
    IN  [e EXCEPT !.vec[i + 1] = new_val]

\* AutoVec::len
AutoVecLen(av) == Len(av.vec)

\* Sums::new (the fill's length 13131313131313 is shortened to fit TLC's
\* 32-bit integers; no row of the model has it)
SumsNew ==
    [sums |-> AutoVecNew(<<200, 13131313, 0>>), seen |-> AutoVecNew(0),
     errors |-> <<>>, successes |-> 0]

\* Sums::len
SumsLen(s) == AutoVecLen(s.sums)

\* A status_length_crc that yields a zero triple for an Err row.
StatusLengthCrc_ErrAsZero(record) ==
    IF record.result.kind = "Ok"
    THEN Some(<<record.result.status, record.result.length, record.result.crc>>)
    ELSE Some(<<0, 0, 0>>)

\* LogCsvRecord::status_length_crc
StatusLengthCrc(record) ==
    IF record.result.kind = "Ok"
    THEN Some(<<record.result.status, record.result.length, record.result.crc>>)
    ELSE None

\* SumError::NonMatchingCrc { reference, crc }
NonMatchingCrc(record, crc) ==
    [reference |-> [query_reference |-> record.query_reference,
                    repetition |-> record.repetition],
     crc |-> crc]

\* Sums::add with the table entry set by every Ok row.
SumsAdd_LastWins(s, record) ==
    LET crc == StatusLengthCrc(record)
    IN  IF crc[1] = "None" THEN s
        ELSE LET i == record.query_reference
                 seen == AutoVecSaturatingInc(s.seen, i)
                 stored == [s EXCEPT !.seen = seen, !.sums = AutoVecSet(@, i, crc[2])]
             IN  IF seen.vec[i + 1] > 1
                 THEN IF crc[2] = AutoVecGetCopy(s.sums, i)
                      THEN [stored EXCEPT !.successes = @ + 1]
                      ELSE [stored EXCEPT
                              !.errors = Append(@, NonMatchingCrc(record, crc[2]))]
                 ELSE stored

\* Sums::add
SumsAdd(s, record) ==
    LET crc == StatusLengthCrc(record)
    IN  IF crc[1] = "None" THEN s
        ELSE LET i == record.query_reference
                 seen == AutoVecSaturatingInc(s.seen, i)
                 now_uses == seen.vec[i + 1]
             IN  IF now_uses > 1
                 THEN IF crc[2] = AutoVecGetCopy(s.sums, i)
                      THEN [s EXCEPT !.seen = seen, !.successes = @ + 1]
                      ELSE [s EXCEPT !.seen = seen,
                              !.errors = Append(@, NonMatchingCrc(record, crc[2]))]
                 ELSE [s EXCEPT !.seen = seen, !.sums = AutoVecSet(@, i, crc[2])]

\* QueriesWithIgnore::ignore: "Err" for a reference beyond the queries file,
\* else whether the regex matches the query's text
Ignore(opts, reference) ==
    IF reference >= opts.nqueries THEN "Err"
    ELSE IF reference \in opts.ignore[2] THEN "ignored" ELSE "kept"

\* The state of sums_from_file before the first row.
SumsFromFileStart == [num_ignored |-> 0, sums |-> SumsNew, failed |-> FALSE]

\* One pass of the loop of sums_from_file over a row that read_record
\* returned as a record.
SumsFromFileRow(opts, st, record) ==
    IF opts.ignore[1] = "None"
    THEN [st EXCEPT !.sums = SumsAdd(@, record)]
    ELSE LET ig == Ignore(opts, record.query_reference)
         IN  IF ig = "Err" THEN [st EXCEPT !.failed = TRUE]
             ELSE IF ig = "ignored" THEN [st EXCEPT !.num_ignored = @ + 1]
             ELSE [st EXCEPT !.sums = SumsAdd(@, record)]

\* a.seen.get_copy(i) > 0 with the test one too high.
Seen_Twice(s, i) == AutoVecGetCopy(s.seen, i) > 1

\* a.seen.get_copy(i) > 0
Seen(s, i) == AutoVecGetCopy(s.seen, i) > 0

\* The counters and the output of Command::Compare before the logs are read.
NoSummary ==
    [num_errors |-> -1, num_same |-> -1, num_ignored_calculated |-> -1,
     num_a_original_ignored |-> -1, num_b_original_ignored |-> -1]
InitCmp ==
    [k |-> 0, num_a_original_ignored |-> 0,
     num_b_original_ignored |-> 0, i |-> 0, num_errors |-> 0, num_same |-> 0,
     num_ignored_counted |-> 0, printed |-> <<>>, summary |-> NoSummary,
     fatal |-> ""]

\* The length check that finds no difference.
LengthsDiffer_Never(a, b) == FALSE

\* if a.len() != b.len() { bail!(..) }
LengthsDiffer(a, b) == SumsLen(a) # SumsLen(b)

\* The body of `for i in 0..a.len()` that prints no line for a difference.
CompareIndex_Silent(c, a, b, i) ==
    IF ~Seen(a, i) /\ ~Seen(b, i)
    THEN [c EXCEPT !.num_ignored_counted = @ + 1, !.i = i + 1]
    ELSE IF Seen(a, i) /\ Seen(b, i)
    THEN IF AutoVecGetCopy(a.sums, i) = AutoVecGetCopy(b.sums, i)
         THEN [c EXCEPT !.num_same = @ + 1, !.i = i + 1]
         ELSE [c EXCEPT !.num_errors = @ + 1, !.i = i + 1]
    ELSE [c EXCEPT !.fatal = "bug?: query line was seeen"]

\* The body of `for i in 0..a.len()`: the match on the two seen counters
CompareIndex(c, a, b, i) ==
    IF ~Seen(a, i) /\ ~Seen(b, i)
    THEN [c EXCEPT !.num_ignored_counted = @ + 1, !.i = i + 1]
    ELSE IF Seen(a, i) /\ Seen(b, i)
    THEN LET alen_and_sum == AutoVecGetCopy(a.sums, i)
             blen_and_sum == AutoVecGetCopy(b.sums, i)
         IN  IF alen_and_sum = blen_and_sum
             THEN [c EXCEPT !.num_same = @ + 1, !.i = i + 1]
             ELSE [c EXCEPT
                     !.printed = Append(@, [line |-> i + 1, a |-> alen_and_sum,
                                            b |-> blen_and_sum]),
                     !.num_errors = @ + 1, !.i = i + 1]
    ELSE [c EXCEPT !.fatal = "bug?: query line was seeen"]

\* let num_total_queries = ..
NumTotalQueries(opts, a) ==
    IF opts.queries THEN opts.nqueries ELSE AutoVecLen(a.seen)

\* The summary line: the counters, num_ignored_calculated and the two
\* numbers of ignored rows; the assert before it panics
Summary(opts, c, a) ==
    LET num_total_queries == NumTotalQueries(opts, a)
        counted == c.num_errors + c.num_same + c.num_ignored_counted
    IN  IF ~(counted <= num_total_queries)
        THEN [c EXCEPT !.fatal = "assertion failed"]
        ELSE [c EXCEPT !.summary =
                [num_errors |-> c.num_errors, num_same |-> c.num_same,
                 num_ignored_calculated |-> num_total_queries - counted,
                 num_a_original_ignored |-> c.num_a_original_ignored,
                 num_b_original_ignored |-> c.num_b_original_ignored]]

\* An exit status that lets one defect pass.
ExitCode_AboveOne(num_errors) == IF num_errors > 1 THEN 1 ELSE 0

\* if num_errors > 0 { exit(1) }, else main returns Ok(())
ExitCode(num_errors) == IF num_errors > 0 THEN 1 ELSE 0

\* What the compare command leaves alone.
noncmpvars == <<runvars, filevars, setup, rq, dg, corpus>>

\* Command::Compare up to the first sums_from_file: --ignore needs --queries
CompareOptions ==
    /\ cpc = "options"
    /\ IF cmp_opts.ignore[1] = "Some" /\ ~cmp_opts.queries
       THEN /\ cmp' = [cmp EXCEPT !.fatal = "missing --queries option, needed for --ignore"]
            /\ cpc' = "fatal"
       ELSE /\ cmp' = cmp
            /\ cpc' = "read_a"
    /\ UNCHANGED <<cmp_opts, log_a, log_b, sums_a, sums_b, noncmpvars>>

\* One pass of the loop of sums_from_file over the first log
SumsFromFileRowA ==
    /\ cpc = "read_a"
    /\ cmp.k < Len(log_a)
    /\ LET st == SumsFromFileRow(cmp_opts,
                    [num_ignored |-> cmp.num_a_original_ignored, sums |-> sums_a,
                     failed |-> FALSE],
                    log_a[cmp.k + 1])
       IN  /\ sums_a' = st.sums
           /\ cmp' = [cmp EXCEPT !.k = @ + 1,
                                 !.num_a_original_ignored = st.num_ignored,
                                 !.fatal = IF st.failed THEN "out of range" ELSE @]
           /\ cpc' = IF st.failed THEN "fatal" ELSE cpc
    /\ UNCHANGED <<cmp_opts, log_a, log_b, sums_b, noncmpvars>>

\* The first log is read: sums_from_file returns, the second log is opened
SumsFromFileEndA ==
    /\ cpc = "read_a"
    /\ cmp.k = Len(log_a)
    /\ cmp' = [cmp EXCEPT !.k = 0]
    /\ cpc' = "read_b"
    /\ UNCHANGED <<cmp_opts, log_a, log_b, sums_a, sums_b, noncmpvars>>

\* One pass of the loop of sums_from_file over the second log
SumsFromFileRowB ==
    /\ cpc = "read_b"
    /\ cmp.k < Len(log_b)
    /\ LET st == SumsFromFileRow(cmp_opts,
                    [num_ignored |-> cmp.num_b_original_ignored, sums |-> sums_b,
                     failed |-> FALSE],
                    log_b[cmp.k + 1])
       IN  /\ sums_b' = st.sums
           /\ cmp' = [cmp EXCEPT !.k = @ + 1,
                                 !.num_b_original_ignored = st.num_ignored,
                                 !.fatal = IF st.failed THEN "out of range" ELSE @]
           /\ cpc' = IF st.failed THEN "fatal" ELSE cpc
    /\ UNCHANGED <<cmp_opts, log_a, log_b, sums_a, noncmpvars>>

\* The second log is read; the two table lengths are compared
CompareLengths ==
    /\ cpc = "read_b"
    /\ cmp.k = Len(log_b)
    /\ IF LengthsDiffer(sums_a, sums_b)
       THEN /\ cmp' = [cmp EXCEPT !.fatal = "the logs use differing numbers of query entries"]
            /\ cpc' = "fatal"
       ELSE /\ cmp' = cmp
            /\ cpc' = "loop"
    /\ UNCHANGED <<cmp_opts, log_a, log_b, sums_a, sums_b, noncmpvars>>

\* One pass of `for i in 0..a.len()`
CompareNext ==
    /\ cpc = "loop"
    /\ cmp.i < SumsLen(sums_a)
    /\ cmp' = CompareIndex(cmp, sums_a, sums_b, cmp.i)
    /\ cpc' = IF cmp'.fatal # "" THEN "fatal" ELSE cpc
    /\ UNCHANGED <<cmp_opts, log_a, log_b, sums_a, sums_b, noncmpvars>>

\* The loop has ended: the summary line is printed
CompareSummary ==
    /\ cpc = "loop"
    /\ cmp.i = SumsLen(sums_a)
    /\ cmp' = Summary(cmp_opts, cmp, sums_a)
    /\ cpc' = IF cmp'.fatal # "" THEN "panicked" ELSE "errors"
    /\ UNCHANGED <<cmp_opts, log_a, log_b, sums_a, sums_b, noncmpvars>>

\* for mut sums in [a, b] { num_errors += sums.errors.len(); .. } and the
\* exit
CompareErrors ==
    /\ cpc = "errors"
    /\ cmp' = [cmp EXCEPT !.num_errors = @ + Len(sums_a.errors) + Len(sums_b.errors)]
    /\ cpc' = IF ExitCode(cmp'.num_errors) = 1 THEN "exit1" ELSE "exit0"
    /\ UNCHANGED <<cmp_opts, log_a, log_b, sums_a, sums_b, noncmpvars>>

\* sums_from_file as a whole: the loop over all rows of one log
RECURSIVE SumsFromFileFrom(_, _, _, _)
SumsFromFileFrom(opts, st, log, k) ==
    IF k > Len(log) \/ st.failed THEN st
    ELSE SumsFromFileFrom(opts, SumsFromFileRow(opts, st, log[k]), log, k + 1)
SumsFromFile(opts, log) == SumsFromFileFrom(opts, SumsFromFileStart, log, 1)

\* `for i in 0..a.len()` as a whole
RECURSIVE CompareLoop(_, _, _)
CompareLoop(c, a, b) ==
    IF c.fatal # "" \/ c.i >= SumsLen(a) THEN c
    ELSE CompareLoop(CompareIndex(c, a, b, c.i), a, b)

\* Command::Compare as a whole, on two logs: the counters and the output
\* when it ends
Compare(opts, la, lb) ==
    IF opts.ignore[1] = "Some" /\ ~opts.queries
    THEN [InitCmp EXCEPT !.fatal = "missing --queries option, needed for --ignore"]
    ELSE LET sa == SumsFromFile(opts, la)
             sb == SumsFromFile(opts, lb)
             c0 == [InitCmp EXCEPT !.k = Len(lb),
                                   !.num_a_original_ignored = sa.num_ignored,
                                   !.num_b_original_ignored = sb.num_ignored]
         IN  IF sa.failed \/ sb.failed THEN [c0 EXCEPT !.fatal = "out of range"]
             ELSE IF LengthsDiffer(sa.sums, sb.sums)
             THEN [c0 EXCEPT !.fatal = "the logs use differing numbers of query entries"]
             ELSE LET c1 == CompareLoop(c0, sa.sums, sb.sums)
                  IN  IF c1.fatal # "" THEN c1
                      ELSE LET c2 == Summary(opts, c1, sa.sums)
                           IN  IF c2.fatal # "" THEN c2
                               ELSE [c2 EXCEPT !.num_errors =
                                       @ + Len(sa.sums.errors) + Len(sb.sums.errors)]

\* ------------------------------------------------------------------ MyCrc

\* Bit i of the number n
Bit(n, i) == (n \div (2 ^ i)) % 2

\* A 64-bit register is the set of the positions of its 1 bits, position 0
\* the least significant; xor is the symmetric difference.
RegBits == 0..63
Xor(a, b) == {i \in RegBits : (i \in a) # (i \in b)}

\* CrcAlgorithm::Crc64Nvme: width 64, reflected input and output, initial
\* value and final xor all ones; the 1 bits of its reflected polynomial
\* 0x9A6C9329AC4BC9B5.
ReflectedPoly ==
    {0, 2, 4, 5, 7, 8, 11, 14, 15, 16, 17, 19,
     22, 26, 27, 29, 31, 32, 35, 37, 40, 41, 44, 47,
     50, 51, 53, 54, 57, 59, 60, 63}

\* crc_fast::Digest::new(CrcAlgorithm::Crc64Nvme)
DigestNew == RegBits

\* One bit of a byte goes through the register: shift right, and xor the
\* polynomial in when the bit shifted out is 1.
ShiftStep(reg) ==
    LET shifted == {i - 1 : i \in reg \ {0}}
    IN  IF 0 \in reg THEN Xor(shifted, ReflectedPoly) ELSE shifted
RECURSIVE ShiftSteps(_, _)
ShiftSteps(reg, n) == IF n = 0 THEN reg ELSE ShiftSteps(ShiftStep(reg), n - 1)

\* One byte is folded into the register.
UpdateByte(reg, byte) ==
    ShiftSteps(Xor(reg, {i \in 0..7 : Bit(byte, i) = 1}), 8)

\* crc_fast::Digest::update(buf)
RECURSIVE DigestUpdateFrom(_, _, _)
DigestUpdateFrom(reg, buf, k) ==
    IF k > Len(buf) THEN reg
    ELSE DigestUpdateFrom(UpdateByte(reg, buf[k]), buf, k + 1)
DigestUpdate(reg, buf) == DigestUpdateFrom(reg, buf, 1)

\* crc_fast::Digest::finalize: the register with the final xor
DigestFinalize(reg) == Xor(reg, RegBits)

\* impl MyCrc for crc_fast::Digest: new
MyCrcNew == DigestNew

\* An add that starts the digest afresh.
MyCrcAdd_Restart(digest, buf) == DigestUpdate(DigestNew, buf)

\* impl MyCrc for crc_fast::Digest: add
MyCrcAdd(digest, buf) == DigestUpdate(digest, buf)

\* impl MyCrc for crc_fast::Digest: finalize, the Crc of the digest
MyCrcFinalize(digest) == DigestFinalize(digest)

\* No checksum is being computed.
NoDigest == [pc |-> "idle", data |-> <<>>, fed |-> 0, sizes |-> <<>>,
             digest |-> MyCrcNew, crc |-> None]

\* What computing a checksum leaves alone.
nondgvars == <<runvars, filevars, cmpvars, setup, rq, corpus>>

\* digest.add(&bytes) for the next chunk, of n bytes
CrcAdd(n) ==
    /\ dg.pc = "add"
    /\ Len(dg.sizes) < MaxAdds
    /\ n \in 0..(Len(dg.data) - dg.fed)
    /\ dg' = [dg EXCEPT !.digest = MyCrcAdd(@, SubSeq(dg.data, dg.fed + 1, dg.fed + n)),
                        !.fed = @ + n,
                        !.sizes = Append(@, n)]
    /\ UNCHANGED nondgvars

\* crc: digest.map(MyCrc::finalize), once all bytes have been added
CrcFinalize ==
    /\ dg.pc = "add"
    /\ dg.fed = Len(dg.data)
    /\ dg' = [dg EXCEPT !.pc = "done", !.crc = Some(MyCrcFinalize(dg.digest))]
    /\ UNCHANGED nondgvars

\* ------------------------------------- RunQuery::run, statement by statement

\* format!("{n:06}"): the decimal digits, padded with zeros to six
Pad6(n) ==
    LET digits == Dec(n)
    IN  [k \in 1..(IF Len(digits) < 6 THEN 6 - Len(digits) ELSE 0) |-> "0"] \o digits

\* QueryReferenceWithRepetition::output_file_name
OutputFileName(entry, show_repetition) ==
    LET line == entry.query_reference + 1
    IN  IF show_repetition
        THEN Pad6(line) \o <<"-">> \o Pad6(entry.repetition)
        ELSE Pad6(line)

\* add_extension(&outpath, format!("{status}")): the path with a dot and the
\* status appended
AddExtension(outpath, status) == outpath \o <<".">> \o StatusToString(status)

\* The test before remove_file without the status.
IsEmptySuccess_AnyStatus(outsize, status) == outsize = 0

\* if outsize == 0 && status == 200 { remove_file(..) } else { rename(..) }
IsEmptySuccess(outsize, status) == outsize = 0 /\ status = 200

\* No call of run is followed statement by statement.
NoRun ==
    [pc |-> "idle", mode |-> "Drop", env |-> [status |-> 200, nchunks |-> 0,
                                              fail |-> "none"],
     entry |-> NoEntry, show_repetition |-> FALSE, k |-> 0, outsize |-> 0,
     inner |-> 0, streamed |-> FALSE, dir |-> {}, result |-> NoResult]

\* run returns `result`
Returned(r, result) == [r EXCEPT !.pc = "returned", !.result = result]

\* What the statements of run leave alone.
nonrqvars == <<runvars, filevars, cmpvars, setup, dg, corpus>>

\* client.post(..).body(..).send().await?; let status = res.status();
RqSend ==
    /\ rq.pc = "send"
    /\ rq' = IF rq.env.fail = "send" THEN Returned(rq, ErrResult("posting the query"))
             ELSE [rq EXCEPT !.pc = IF rq.mode = "Drop" THEN "stream" ELSE "output"]
    /\ UNCHANGED nonrqvars

\* output_mode.output(&..output_file_name(show_repetition)).await?: in
\* Outdir mode the file is created, or truncated, under the instance's name
RqOutput ==
    /\ rq.pc = "output"
    /\ rq' = IF rq.mode = "Outdir" /\ rq.env.fail = "open"
             THEN Returned(rq, ErrResult("opening the output file"))
             ELSE IF rq.mode = "Outdir"
             THEN [rq EXCEPT !.pc = "stream",
                             !.dir = {[name |-> OutputFileName(rq.entry, rq.show_repetition),
                                       len |-> 0]}]
             ELSE [rq EXCEPT !.pc = "stream"]
    /\ UNCHANGED nonrqvars

\* One pass of `while let Some(bytes) = res.chunk().await? { .. }`: in the
\* drop branch the outer outsize counts the chunk; in the other branch the
\* chunk is written to `out` and the inner outsize counts it
RqChunk ==
    /\ rq.pc = "stream"
    /\ rq.k < rq.env.nchunks
    /\ rq' = IF rq.mode = "Drop"
             THEN [rq EXCEPT !.k = @ + 1, !.outsize = @ + 1]
             ELSE IF rq.env.fail = "write"
             THEN Returned(rq, ErrResult("writing to stdout"))
             ELSE [rq EXCEPT !.k = @ + 1, !.inner = @ + 1,
                             !.dir = {[f EXCEPT !.len = @ + 1] : f \in rq.dir}]
    /\ UNCHANGED nonrqvars

\* res.chunk() returns an error, or None: the body has been streamed, and
\* the drop branch returns
RqBodyEnd ==
    /\ rq.pc = "stream"
    /\ rq.k = rq.env.nchunks
    /\ rq' = IF rq.env.fail = "read" THEN Returned(rq, ErrResult("reading the result"))
             ELSE IF rq.mode = "Drop"
             THEN Returned([rq EXCEPT !.streamed = TRUE],
                           OkResult(rq.env.status, rq.outsize))
             ELSE [rq EXCEPT !.pc = "flush", !.streamed = TRUE]
    /\ UNCHANGED nonrqvars

\* if status != 200 && output_mode.is_stdout() { out.write_all(b"\n").await? }
\* out.flush().await?; without an outpath run returns
RqFlush ==
    /\ rq.pc = "flush"
    /\ rq' = IF rq.env.status # 200 /\ rq.mode = "Print" /\ rq.env.fail = "newline"
             THEN Returned(rq, ErrResult("writing to stdout"))
             ELSE IF rq.env.fail = "flush" THEN Returned(rq, ErrResult("flush"))
             ELSE IF rq.mode = "Outdir" THEN [rq EXCEPT !.pc = "cleanup"]
             ELSE Returned(rq, OkResult(rq.env.status, rq.outsize))
    /\ UNCHANGED nonrqvars

\* if let Some(outpath) = outpath { .. }: the file is removed or renamed, and
\* run returns
RqCleanup ==
    /\ rq.pc = "cleanup"
    /\ rq' = IF IsEmptySuccess(rq.inner, rq.env.status)
             THEN IF rq.env.fail = "remove"
                  THEN Returned(rq, ErrResult("removing output file"))
                  ELSE Returned([rq EXCEPT !.dir = {}],
                                OkResult(rq.env.status, rq.outsize))
             ELSE IF rq.env.fail = "rename"
                  THEN Returned(rq, ErrResult("renaming"))
                  ELSE Returned([rq EXCEPT !.dir =
                                    {[f EXCEPT !.name = AddExtension(@, rq.env.status)]
                                        : f \in rq.dir}],
                                OkResult(rq.env.status, rq.outsize))
    /\ UNCHANGED nonrqvars

\* ------------------------------------------- Queries::_new and its indices

\* A usize or u32 number is the sequence of its 16-bit limbs, the least
\* significant first (a usize of 64 bits has four, a u32 two): the numbers
\* around 2^32 are beyond TLC's 32-bit integers.
LimbBase == 2 ^ 16
UsizeLimbs == 4
U32Limbs == 2

\* Every limb of n is 0xFFFF: n is the MAX of its type.
IsMax(n) == \A k \in DOMAIN n : n[k] = LimbBase - 1

\* n + 1 in the width of n, the carry going up from limb k
RECURSIVE AddCarry(_, _)
AddCarry(n, k) ==
    IF k > Len(n) THEN n
    ELSE IF n[k] = LimbBase - 1
         THEN AddCarry([n EXCEPT ![k] = 0], k + 1)
         ELSE [n EXCEPT ![k] = @ + 1]

\* usize::checked_add(1)
CheckedAdd1(n) == IF IsMax(n) THEN None ELSE Some(AddCarry(n, 1))

\* A conversion that keeps the low 32 bits, as `as u32` does.
U32TryFrom_Truncating(n) == Some(SubSeq(n, 1, U32Limbs))

\* u32::try_from(maxline).ok()
U32TryFrom(n) ==
    IF \A k \in (U32Limbs + 1)..Len(n) : n[k] = 0
    THEN Some(SubSeq(n, 1, U32Limbs))
    ELSE None

\* query_index as u32: the low 32 bits
AsU32(n) == SubSeq(n, 1, U32Limbs)

\* a < b, compared from limb k downward
RECURSIVE LessFrom(_, _, _)
LessFrom(a, b, k) ==
    IF k = 0 THEN FALSE
    ELSE IF a[k] # b[k] THEN a[k] < b[k]
    ELSE LessFrom(a, b, k - 1)
Less(a, b) == LessFrom(a, b, Len(a))

\* The check of Queries::_new on a corpus of `len` queries:
\* queries.len().checked_add(1)? and u32::try_from(maxline).ok()?, turned
\* into the error by ok_or_else
QueriesNew(len) ==
    LET maxline == CheckedAdd1(len)
    IN  IF maxline = None \/ U32TryFrom(maxline[2]) = None
        THEN ">= u32 lines in file"
        ELSE "Ok"

\* Display for QueryReference: self.query_index + 1 in u32, which overflows
\* (a panic, or 0 in a build without overflow checks) on u32::MAX
DisplayLine(query_index) ==
    IF IsMax(query_index) THEN "overflow" ELSE AddCarry(query_index, 1)

\* No corpus is being built.
NoQueries == [pc |-> "idle", len |-> <<0, 0, 0, 0>>, error |-> "",
              index |-> <<>>, query_index |-> <<>>, shown |-> <<>>]

\* What building a corpus leaves alone.
noncorpusvars == <<runvars, filevars, cmpvars, setup, rq, dg>>

\* Queries::from_lines_string / from_single_query: Self::_new
QsNew ==
    /\ corpus.pc = "new"
    /\ corpus' = IF QueriesNew(corpus.len) = "Ok"
             THEN [corpus EXCEPT !.pc = "accepted"]
             ELSE [corpus EXCEPT !.pc = "rejected", !.error = QueriesNew(corpus.len)]
    /\ UNCHANGED noncorpusvars

\* for query_index in queries.query_index_range() { query_references.push(
\* QueryReference { query_index: query_index as u32 }) }: one of the indices
QsPush(index) ==
    /\ corpus.pc = "accepted"
    /\ Less(index, corpus.len)
    /\ corpus' = [corpus EXCEPT !.pc = "pushed", !.index = index,
                        !.query_index = AsU32(index)]
    /\ UNCHANGED noncorpusvars

\* The reference is formatted, as in the log and in the error messages.
QsDisplay ==
    /\ corpus.pc = "pushed"
    /\ corpus' = [corpus EXCEPT !.pc = "shown", !.shown = DisplayLine(corpus.query_index)]
    /\ UNCHANGED noncorpusvars

\* ------------------------------------------------ main before the command

\* The program was started without --warm-up and has sent no request.
NoSetup == [warm_up |-> FALSE, requests |-> 0, warm_result |-> NoResult,
            error |-> ""]

\* What the statements of main before the plan leave alone.
setupframe == <<nqueries, repeat, dry_run, concurrency, max_errors,
                collect_errors, output_mode, filevars, cmpvars, planvars, cur,
                tasks, running_tasks, acc, twin, chan, rows, rq, dg,
                corpus>>

\* let endpoint_url = if let Some(url) = &url { .. } else { default_url(port)? }
\* and Pool::new: default_url fails on a PORT variable that is no number
EndpointUrl(ok) ==
    /\ pc = "endpoint_url"
    /\ IF ok
       THEN /\ pc' = "warm_up"
            /\ setup' = setup
       ELSE /\ pc' = "setup_failed"
            /\ setup' = [setup EXCEPT !.error = "parsing port string"]
    /\ UNCHANGED <<setupframe, poolvars, writer>>

\* Where main goes when the warm-up run's result is propagated with `?`.
AfterWarmUp_Propagated(result) ==
    IF result.kind = "Err" THEN "setup_failed" ELSE "from_options"

\* let _ = rq.run(..).await: the result of the warm-up run is dropped and main
\* goes on to the command
AfterWarmUp(result) == "from_options"

\* if warm_up { let client = client_pool.get_item(); ..; let _ = rq.run(client,
\* OutputMode::Drop, false, &queries).await; }: get_item finds the idle list
\* empty and creates a client, run sends one request and returns `result`,
\* which drops the guard it owns
WarmUp(result) ==
    /\ pc = "warm_up"
    /\ IF setup.warm_up
       THEN /\ setup' = [setup EXCEPT !.requests = @ + 1,
                                      !.warm_result = result]
            /\ n_clients' = n_clients + 1
            /\ items' = ItemsAfterRun(items, n_clients + 1, result)
            /\ pc' = AfterWarmUp(result)
       ELSE /\ UNCHANGED <<setup, poolvars>>
            /\ pc' = "from_options"
    /\ UNCHANGED <<setupframe, writer>>

\* Command::Iter: OutputMode::from_options(outdir, drop_output)?, which
\* fails when create_dir_all fails
FromOptions(ok) ==
    /\ pc = "from_options"
    /\ ok \/ output_mode = "Outdir"
    /\ IF ok
       THEN /\ pc' = "from_path"
            /\ setup' = setup
       ELSE /\ pc' = "setup_failed"
            /\ setup' = [setup EXCEPT !.error = "can't create dir or its parents"]
    /\ UNCHANGED <<setupframe, poolvars, writer>>

\* Queries::from_path(&queries_path)?; the plan is built from its lines
FromPath(ok) ==
    /\ pc = "from_path"
    /\ IF ok
       THEN /\ pc' = "shuffle"
            /\ setup' = setup
       ELSE /\ pc' = "setup_failed"
            /\ setup' = [setup EXCEPT !.error = "queries file"]
    /\ UNCHANGED <<setupframe, poolvars, writer>>

\* let logger = if let Some(path) = &log_csv { Some(LogCsvWriter::create(..)?) }
\* else { None }: the last statement before the submission loop
LoggerCreate(ok) ==
    /\ pc = "loop"
    /\ writer = "pending"
    /\ IF ok
       THEN /\ writer' = "running"
            /\ UNCHANGED <<pc, setup>>
       ELSE /\ writer' = "none"
            /\ pc' = "setup_failed"
            /\ setup' = [setup EXCEPT !.error = "log file"]
    /\ UNCHANGED <<setupframe, poolvars>>

\* ------------------------------------------------------- specifications

\* No log file is written or read back.
InitNoFile ==
    /\ format = "normal"
    /\ records = <<>>
    /\ file_header = <<>>
    /\ file_rows = <<>>
    /\ line0 = 0
    /\ nread = 0
    /\ next_item = NoItem
    /\ lpc = "idle"

\* Two logs are not being compared.
NoCmpOpts == [nqueries |-> 0, queries |-> FALSE, ignore |-> None]
InitNoCompare ==
    /\ cmp_opts = NoCmpOpts
    /\ log_a = <<>>
    /\ log_b = <<>>
    /\ sums_a = SumsNew
    /\ sums_b = SumsNew
    /\ cmp = InitCmp
    /\ cpc = "idle"

InitRun ==
    /\ query_references = QueryReferences(nqueries, repeat)
    /\ shuffle_i \in {0, Len(query_references)}
    /\ query_counters = [i \in 0..(nqueries - 1) |-> 0]
    /\ pos = 0
    /\ printed_plan = <<>>
    /\ cur = NoEntry
    /\ tasks = <<>>
    /\ running_tasks = 0
    /\ acc = InitAcc
    /\ twin = Decisions(InitAcc)
    /\ items = <<>>
    /\ n_clients = 0
    /\ chan = <<>>
    /\ rows = <<>>

\* main has come to the plan of Command::Iter.
InitCommon ==
    /\ pc = "shuffle"
    /\ InitRun

\* An iteration run against the endpoint.
Init ==
    /\ nqueries \in 0..MaxPlan
    /\ repeat \in 0..MaxPlan
    /\ dry_run = FALSE
    /\ \E opt \in {None} \cup {Some(n) : n \in 0..MaxConc} : concurrency = Concurrency(opt)
    /\ max_errors \in 0..MaxBudget
    /\ collect_errors \in BOOLEAN
    /\ output_mode \in OutputModes
    /\ writer \in {"none", "running"}
    /\ nqueries * repeat <= (IF output_mode = "Drop" /\ writer = "none"
                             THEN MaxPlan ELSE MaxPlanOut)
    /\ InitCommon
    /\ InitNoFile
    /\ InitNoCompare
    /\ setup = NoSetup
    /\ rq = NoRun
    /\ dg = NoDigest
    /\ corpus = NoQueries

Next ==
    \/ \E j \in 1..Len(query_references) : ShuffleStep(j)
    \/ PlanReady
    \/ Submit
    \/ CapacityWait
    \/ \E t \in DOMAIN tasks, time_ok \in BOOLEAN : AwaitCap(t, time_ok)
    \/ LoopEnd
    \/ \E t \in DOMAIN tasks, time_ok \in BOOLEAN : Drain(t, time_ok)
    \/ DrainEnd
    \/ FinishJoin
    \/ \E t \in DOMAIN tasks : TaskGetItem(t)
    \/ \E t \in DOMAIN tasks, result \in RunResults[output_mode] :
          TaskReturnsOk(t, result)
    \/ \E t \in DOMAIN tasks, result \in RunResults[output_mode] :
          TaskReturnsErr(t, result)
    \/ \E t \in DOMAIN tasks : TaskCancelled(t)
    \/ WriterWriteRow
    \/ WriterWriteErr
    \/ \E ok \in BOOLEAN : WriterFlush(ok)
    \/ WriterKilled

Spec == Init /\ [][Next]_vars

\* The steps of main, which block_on runs until it returns.
MainStep ==
    \/ \E j \in 1..Len(query_references) : ShuffleStep(j)
    \/ PlanReady
    \/ Submit
    \/ CapacityWait
    \/ \E t \in DOMAIN tasks, time_ok \in BOOLEAN : AwaitCap(t, time_ok)
    \/ LoopEnd
    \/ \E t \in DOMAIN tasks, time_ok \in BOOLEAN : Drain(t, time_ok)
    \/ DrainEnd
    \/ FinishJoin

\* The steps of the spawned tasks, which the runtime's workers poll; a task
\* returns when its request has completed, with a response or an error.
TaskStep ==
    \/ \E t \in DOMAIN tasks : TaskGetItem(t)
    \/ \E t \in DOMAIN tasks, result \in RunResults[output_mode] :
          TaskReturns(t, result)
    \/ \E t \in DOMAIN tasks : TaskCancelled(t)

\* The steps of the log writer's thread.
WriterStep ==
    \/ WriterWriteRow
    \/ WriterWriteErr
    \/ \E ok \in BOOLEAN : WriterFlush(ok)
    \/ WriterKilled

\* An iteration run in which main, the tasks and the writer thread are
\* scheduled again and again, and every request completes.
SpecFair ==
    /\ Spec
    /\ WF_vars(MainStep)
    /\ WF_vars(TaskStep)
    /\ WF_vars(WriterStep)

\* A dry run: the plan is built, shuffled and printed.
InitPlan ==
    /\ nqueries \in 0..MaxN
    /\ repeat \in 0..MaxR
    /\ dry_run = TRUE
    /\ concurrency = 1
    /\ max_errors = 0
    /\ collect_errors = FALSE
    /\ output_mode = "Print"
    /\ writer = "none"
    /\ InitCommon
    /\ InitNoFile
    /\ InitNoCompare
    /\ setup = NoSetup
    /\ rq = NoRun
    /\ dg = NoDigest
    /\ corpus = NoQueries

NextPlan ==
    \/ \E j \in 1..Len(query_references) : ShuffleStep(j)
    \/ PlanReady
    \/ DryRunPrint
    \/ DryRunReturn

SpecPlan == InitPlan /\ [][NextPlan]_vars

\* The times, lengths, checksums and error texts of the records written.
Nanos == {0, 1, 238}
Lengths == {0, 12}
Crcs == {7}
Messages == {<<>>, <<"e", ",", " ", "\"", "x">>}

LogCsvResults ==
    {LogCsvResultOk(st, l, c) : st \in Statuses, l \in Lengths, c \in Crcs}
        \cup {LogCsvResultErr(e) : e \in Messages}

LogCsvRecords ==
    [query_reference : 0..1, repetition : {0, 10}, start : Nanos, end : {238},
     d : {1}, result : LogCsvResults]

\* A log file is written from up to MaxRows records and read back.
InitLog ==
    /\ format \in {"normal", "extended"}
    /\ records \in UNION {[1..n -> LogCsvRecords] : n \in 0..MaxRows}
    /\ file_header = <<>>
    /\ file_rows = <<>>
    /\ line0 = 0
    /\ nread = 0
    /\ next_item = NoItem
    /\ lpc = "create"
    /\ nqueries = 0
    /\ repeat = 0
    /\ dry_run = FALSE
    /\ concurrency = 1
    /\ max_errors = 0
    /\ collect_errors = FALSE
    /\ output_mode = "Drop"
    /\ writer = "none"
    /\ InitCommon
    /\ InitNoCompare
    /\ setup = NoSetup
    /\ rq = NoRun
    /\ dg = NoDigest
    /\ corpus = NoQueries

NextLog ==
    \/ LogCreate
    \/ LogWriteRow
    \/ LogFlush
    \/ \E k \in 1..MaxRows : FileEdited(k)
    \/ ReaderOpen
    \/ ReaderNext
    \/ ReaderEnd

SpecLog == InitLog /\ [][NextLog]_vars

\* The results of the rows of the compared logs: two responses that differ
\* in their checksum, and an error.
CmpResults ==
    {LogCsvResultOk(200, 12, 7), LogCsvResultOk(200, 12, 8), LogCsvResultErr(<<>>)}

\* The results of the rows of the second log when it is another run's.
SecondResults == {LogCsvResultOk(200, 12, 7), LogCsvResultErr(<<>>)}

\* The instances of a plan of n queries repeated r times, in plan order.
PlanOrder(n, r) ==
    [k \in 1..(n * r) |-> [query_reference |-> (k - 1) % n,
                           repetition |-> (k - 1) \div n]]

\* The row of a log, as far as the reconciler reads it.
LogRow(instance, result) ==
    [query_reference |-> instance.query_reference,
     repetition |-> instance.repetition, result |-> result]

\* Two logs of runs over one corpus of n queries with --repeat r are
\* compared: the first has its rows in any order (the order of completion);
\* the second is the same file, or another run's log with its rows in plan
\* order; --queries, if given, names that corpus, and --ignore, if given,
\* matches one of its queries.
InitCompare ==
    /\ \E n \in 1..MaxLogRows, r \in 1..MaxLogRows :
          /\ n * r <= MaxLogRows
          /\ cmp_opts \in [nqueries : {n}, queries : BOOLEAN,
                           ignore : {None} \cup {Some({q}) : q \in 0..(n - 1)}]
          /\ \E p \in Permutations(1..(n * r)), ra \in [1..(n * r) -> CmpResults] :
                log_a = [k \in 1..(n * r) |-> LogRow(PlanOrder(n, r)[p[k]], ra[k])]
          /\ \/ log_b = log_a
             \/ \E rb \in [1..(n * r) -> SecondResults] :
                   log_b = [k \in 1..(n * r) |-> LogRow(PlanOrder(n, r)[k], rb[k])]
    /\ sums_a = SumsNew
    /\ sums_b = SumsNew
    /\ cmp = InitCmp
    /\ cpc = "options"
    /\ nqueries = 0
    /\ repeat = 0
    /\ dry_run = FALSE
    /\ concurrency = 1
    /\ max_errors = 0
    /\ collect_errors = FALSE
    /\ output_mode = "Drop"
    /\ writer = "none"
    /\ InitCommon
    /\ InitNoFile
    /\ setup = NoSetup
    /\ rq = NoRun
    /\ dg = NoDigest
    /\ corpus = NoQueries

NextCompare ==
    \/ CompareOptions
    \/ SumsFromFileRowA
    \/ SumsFromFileEndA
    \/ SumsFromFileRowB
    \/ CompareLengths
    \/ CompareNext
    \/ CompareSummary
    \/ CompareErrors

SpecCompare == InitCompare /\ [][NextCompare]_vars

\* The numbers of rows for one reference that a long log starts with: none,
\* and those that bring its u8 seen counter to the edge of its range.
LongRuns == {0, 2 ^ 8 - 3, 2 ^ 8 - 2, 2 ^ 8 - 1}

\* The Sums after n Ok rows of the first reference, all with the triple of
\* the first one: n up to 255 calls of Sums::add, of which the first sets the
\* table entry and the others count as stable.
SumsAfterRun(n, triple) ==
    IF n = 0 THEN SumsNew
    ELSE [SumsNew EXCEPT !.sums = AutoVecSet(@, 0, triple),
                         !.seen = [@ EXCEPT !.vec = <<n>>],
                         !.successes = n - 1]

\* A log of many repetitions is read by sums_from_file: its first rows, all
\* Ok rows of the first reference with one checksum, have been read, and up
\* to MaxTail rows of two references follow.
InitSums ==
    /\ cmp_opts = [nqueries |-> 2, queries |-> FALSE, ignore |-> None]
    /\ \E n0 \in LongRuns, n \in 0..MaxTail :
          \E tail \in [1..n -> [query_reference : 0..1, repetition : {0},
                                 result : CmpResults]] :
              LET head == [k \in 1..n0 |->
                             LogRow([query_reference |-> 0, repetition |-> k - 1],
                                    LogCsvResultOk(200, 12, 7))]
              IN  /\ log_a = head \o tail
                  /\ sums_a = SumsAfterRun(n0, <<200, 12, 7>>)
                  /\ cmp = [InitCmp EXCEPT !.k = n0]
    /\ log_b = <<>>
    /\ sums_b = SumsNew
    /\ cpc = "read_a"
    /\ nqueries = 0
    /\ repeat = 0
    /\ dry_run = FALSE
    /\ concurrency = 1
    /\ max_errors = 0
    /\ collect_errors = FALSE
    /\ output_mode = "Drop"
    /\ writer = "none"
    /\ InitCommon
    /\ InitNoFile
    /\ setup = NoSetup
    /\ rq = NoRun
    /\ dg = NoDigest
    /\ corpus = NoQueries

NextSums ==
    \/ SumsFromFileRowA
    \/ SumsFromFileEndA

SpecSums == InitSums /\ [][NextSums]_vars

\* api-query is started with the options of Command::Iter.
InitSetup ==
    /\ nqueries \in 0..MaxN
    /\ repeat \in 0..MaxR
    /\ dry_run \in BOOLEAN
    /\ concurrency = 1
    /\ max_errors = 0
    /\ collect_errors = FALSE
    /\ output_mode \in OutputModes
    /\ writer \in {"none", "pending"}
    /\ pc = "endpoint_url"
    /\ InitRun
    /\ InitNoFile
    /\ InitNoCompare
    /\ setup \in [warm_up : BOOLEAN, requests : {0}, warm_result : {NoResult},
                  error : {""}]
    /\ rq = NoRun
    /\ dg = NoDigest
    /\ corpus = NoQueries

NextSetup ==
    \/ \E ok \in BOOLEAN : EndpointUrl(ok)
    \/ \E result \in RunResults["Drop"] : WarmUp(result)
    \/ \E ok \in BOOLEAN : FromOptions(ok)
    \/ \E ok \in BOOLEAN : FromPath(ok)
    \/ \E j \in 1..Len(query_references) : ShuffleStep(j)
    \/ PlanReady
    \/ DryRunPrint
    \/ DryRunReturn
    \/ \E ok \in BOOLEAN : LoggerCreate(ok)

SpecSetup == InitSetup /\ [][NextSetup]_vars

\* The plan entries run is called with.
RunEntries == [query_reference : 0..(MaxN - 1), repetition : 0..(MaxR - 1)]

\* One call of RunQuery::run, for a plan entry, under an output mode, with
\* what the endpoint and the operating system do to it.
InitRunQuery ==
    /\ \E mode \in OutputModes, env \in Envs, entry \in RunEntries,
          show_repetition \in BOOLEAN :
          rq = [NoRun EXCEPT !.pc = "send", !.mode = mode, !.env = env,
                             !.entry = entry, !.show_repetition = show_repetition]
    /\ nqueries = 0
    /\ repeat = 0
    /\ dry_run = FALSE
    /\ concurrency = 1
    /\ max_errors = 0
    /\ collect_errors = FALSE
    /\ output_mode = "Drop"
    /\ writer = "none"
    /\ InitCommon
    /\ InitNoFile
    /\ InitNoCompare
    /\ setup = NoSetup
    /\ dg = NoDigest
    /\ corpus = NoQueries

NextRunQuery ==
    \/ RqSend
    \/ RqOutput
    \/ RqChunk
    \/ RqBodyEnd
    \/ RqFlush
    \/ RqCleanup

SpecRunQuery == InitRunQuery /\ [][NextRunQuery]_vars

\* The bytes of the bodies that are hashed.
CrcBytes == {0, 1, 255}

\* The checksum of a body of up to MaxBytes bytes is computed from chunks.
InitCrc ==
    /\ \E data \in UNION {[1..n -> CrcBytes] : n \in 0..MaxBytes} :
          dg = [NoDigest EXCEPT !.pc = "add", !.data = data]
    /\ corpus = NoQueries
    /\ nqueries = 0
    /\ repeat = 0
    /\ dry_run = FALSE
    /\ concurrency = 1
    /\ max_errors = 0
    /\ collect_errors = FALSE
    /\ output_mode = "Drop"
    /\ writer = "none"
    /\ InitCommon
    /\ InitNoFile
    /\ InitNoCompare
    /\ setup = NoSetup
    /\ rq = NoRun

NextCrc ==
    \/ \E n \in 0..MaxBytes : CrcAdd(n)
    \/ CrcFinalize

SpecCrc == InitCrc /\ [][NextCrc]_vars

\* The limbs the query counts and the indices are made of.
LimbValues == {0, 1, LimbBase - 3, LimbBase - 2, LimbBase - 1}

\* The query counts and the indices of usize.
Usizes == [1..UsizeLimbs -> LimbValues]

\* A corpus of any number of queries is built.
InitQueries ==
    /\ \E len \in Usizes : corpus = [NoQueries EXCEPT !.pc = "new", !.len = len]
    /\ dg = NoDigest
    /\ nqueries = 0
    /\ repeat = 0
    /\ dry_run = FALSE
    /\ concurrency = 1
    /\ max_errors = 0
    /\ collect_errors = FALSE
    /\ output_mode = "Drop"
    /\ writer = "none"
    /\ InitCommon
    /\ InitNoFile
    /\ InitNoCompare
    /\ setup = NoSetup
    /\ rq = NoRun

NextQueries ==
    \/ QsNew
    \/ \E index \in Usizes : QsPush(index)
    \/ QsDisplay

SpecQueries == InitQueries /\ [][NextQueries]_vars

\* ---------------------------------------------------------------- claims

\* The spawned tasks whose result await_one_task has not taken yet.
InFlight == {t \in DOMAIN tasks : tasks[t].st # "reaped"}

\* C1: with the cap C = concurrency.unwrap_or(1).max(1), C is at least 1 and
\* in every state at most C spawned tasks have a result that main has not
\* taken yet.
C1_AtMostCInFlight ==
    /\ concurrency >= 1
    /\ Cardinality(InFlight) <= concurrency

\* C1 witness: two tasks are in flight under the cap 2 while main waits at
\* the cap with a third entry in hand.
C1_Witness ==
    /\ concurrency = 2
    /\ pc = "await_cap"
    /\ Cardinality(InFlight) = 2
    /\ Len(tasks) = 2

\* C2: while main waits at the cap, every completed task, whatever its place
\* in the spawn order, can be the one await_one_task returns, and unless that
\* call returns an error the pending entry is spawned in the same step.
C2_AnyCompletionSubmits ==
    pc = "await_cap" =>
        \A t \in DOMAIN tasks :
            tasks[t].st = "ready" =>
                ENABLED (/\ AwaitCap(t, TRUE)
                         /\ tasks'[t].st = "reaped"
                         /\ (acc'.outcome = "Ok" =>
                                /\ pc' = "loop"
                                /\ Len(tasks') = Len(tasks) + 1
                                /\ tasks'[Len(tasks')] = NewTask(cur)))

\* C2 witness: the second task was reaped and the third entry was spawned
\* while the first task is still running.
C2_Witness ==
    /\ concurrency = 2
    /\ Len(tasks) = 3
    /\ tasks[1].st = "running"
    /\ tasks[2].st = "reaped"
    /\ tasks[3].st = "spawned"

\* main has returned.
Terminated == pc \in {"done", "aborted", "finish_failed"}

\* main returned an error that is not the budget's: a record could not be
\* sent to the log writer, the time from start to end could not be computed,
\* or logger.finish() returned the writer thread's error.
OtherFailure ==
    \/ pc = "finish_failed"
    \/ pc = "aborted" /\ acc.outcome \in {"send", "time difference"}

\* C3 as stated: a run that has ended has failed exactly when its hard
\* errors exceed max_errors, and has otherwise returned Ok.
C3_Original ==
    Terminated => (pc = "done" <=> acc.num_errors <= max_errors)

\* C3 amended: the hard errors never exceed max_errors + 1 and the run is
\* aborted in the call of await_one_task that reaps error max_errors + 1; a
\* run that has ended with at most max_errors hard errors has returned Ok
\* unless the log writer or the clock failed it, and without a log file it has
\* failed exactly when its hard errors exceed max_errors.
C3_AbortsExactlyAboveBudget ==
    /\ acc.num_errors > max_errors =>
            pc = "aborted" /\ acc.num_errors = max_errors + 1
    /\ acc.outcome = "too many errors" => acc.num_errors = max_errors + 1
    /\ Terminated /\ ~OtherFailure =>
            (pc = "done" <=> acc.num_errors <= max_errors)
    /\ writer = "none" => ~OtherFailure

\* C3 witness: with max_errors = 1 a run of three requests was aborted at
\* the reap of its second hard error, after one response was tallied.
C3_Witness ==
    /\ max_errors = 1
    /\ pc = "aborted"
    /\ acc.outcome = "too many errors"
    /\ acc.num_errors = 2
    /\ TallySum(acc.status_tally) = 1

\* C4: the state in which the hard errors exceed the budget is the aborted
\* one, and from a run aborted on the budget no step spawns a task, takes an
\* entry from the plan, changes the counters or the tally, or sends a record.
C4_NothingAfterAbort ==
    [][/\ acc'.num_errors > max_errors => pc' = "aborted"
       /\ acc.outcome = "too many errors" =>
            /\ pc' = "aborted"
            /\ Len(tasks') = Len(tasks)
            /\ pos' = pos
            /\ acc' = acc
            /\ running_tasks' = running_tasks
            /\ \/ chan' = chan
               \/ chan' = SubSeq(chan, 2, Len(chan))
               \/ chan' = <<>>]_vars

\* C4 witness: the budget was exceeded with a plan entry not yet submitted,
\* and a task that was in flight has been dropped after the abort.
C4_Witness ==
    /\ pc = "aborted"
    /\ acc.outcome = "too many errors"
    /\ Len(tasks) < Len(query_references)
    /\ \E t \in DOMAIN tasks : tasks[t].st = "cancelled"

\* The entry of a status in the tally, 0 when there is none.
Tally(tally, status) == IF status \in DOMAIN tally THEN tally[status] ELSE 0

\* C5: the call of await_one_task that reaps a response with a non-200 status
\* adds one to the tally entry of that status and to no other, leaves
\* num_errors and errors unchanged, hands the log writer (if any, and unless
\* the call fails before) an Ok record with that status, and does not return
\* the budget's error.
C5_StatusIsNotAnError ==
    [][\A t \in DOMAIN tasks :
        LET r == tasks[t].run_query_result
        IN  (tasks[t].st = "ready" /\ tasks'[t].st = "reaped"
                /\ r.kind = "Ok" /\ r.status # 200) =>
            /\ \A s \in Statuses :
                  Tally(acc'.status_tally, s) =
                      Tally(acc.status_tally, s) + (IF s = r.status THEN 1 ELSE 0)
            /\ acc'.num_errors = acc.num_errors
            /\ acc'.errors = acc.errors
            /\ acc'.stderr = acc.stderr
            /\ acc'.outcome # "too many errors"
            /\ (writer # "none" /\ acc'.outcome = "Ok") =>
                  /\ chan' = Append(chan, acc'.sent)
                  /\ acc'.sent.result = OkResult(r.status, r.outsize)
                  /\ acc'.sent.query_reference =
                        tasks[t].query_reference_with_repetition.query_reference]_vars

\* C5 witness: a 404 response was reaped and logged while the budget is 0,
\* and the run went on.
C5_Witness ==
    /\ max_errors = 0
    /\ Tally(acc.status_tally, 404) = 1
    /\ acc.num_errors = 0
    /\ acc.sent.result.kind = "Ok"
    /\ acc.sent.result.status = 404
    /\ pc = "drain"

\* C6: after every sequence of reaps the run and its twin under the opposite
\* --collect-errors have the same num_errors, the same status_tally, have
\* sent the same record and have returned the same result from
\* await_one_task; the option decides only whether an error's text went to
\* stderr at once or into `errors`.
C6_CollectErrorsOnlyDefers ==
    /\ Decisions(acc) = twin
    /\ acc.stderr + Len(acc.errors) = acc.num_errors
    /\ collect_errors => acc.stderr = 0
    /\ ~collect_errors => acc.errors = <<>>

\* C6 witness: a collecting run was aborted on its second error.
C6_Witness ==
    /\ collect_errors
    /\ Len(acc.errors) = 2
    /\ acc.outcome = "too many errors"

\* C7: the tasks spawned so far are the plan's first entries, one task per
\* entry in plan order (with the one main holds while it waits at the cap),
\* so no entry is submitted twice; and when both loops have ended without an
\* abort every entry has been submitted and the tally counts plus the hard
\* errors equal the plan length nqueries * repeat.
C7_EveryEntryOnce ==
    /\ Len(tasks) <= pos
    /\ pc # "aborted" => Len(tasks) + (IF cur = NoEntry THEN 0 ELSE 1) = pos
    /\ \A t \in DOMAIN tasks :
          tasks[t].query_reference_with_repetition.query_reference
              = query_references[t]
    /\ \A t, u \in DOMAIN tasks :
          t # u => tasks[t].query_reference_with_repetition
                     # tasks[u].query_reference_with_repetition
    /\ pc \in {"finish", "done", "finish_failed"} =>
          /\ Len(tasks) = nqueries * repeat
          /\ TallySum(acc.status_tally) + acc.num_errors = nqueries * repeat

\* C7 witness: a run of three requests has ended Ok with one hard error.
C7_Witness ==
    /\ pc = "done"
    /\ nqueries * repeat = 3
    /\ acc.num_errors = 1
    /\ TallySum(acc.status_tally) = 2

\* The instances the iterator has yielded for a reference, in plan order.
RepetitionsOf(plan, ref) ==
    LET idx == {i \in DOMAIN plan : plan[i].query_reference = ref}
    IN  {plan[i].repetition : i \in idx}

\* C8: for every corpus size and repeat factor, 0 included, and every
\* shuffle, query_references holds nqueries * repeat references, and a dry
\* run that has returned has printed as many instances.
C8_PlanLength ==
    /\ Len(query_references) = nqueries * repeat
    /\ pc = "done" => Len(printed_plan) = nqueries * repeat

\* C8 witness: the plan of 2 queries repeated 3 times was shuffled out of
\* file order and printed in full.
C8_Witness ==
    /\ pc = "done"
    /\ nqueries = 2
    /\ repeat = 3
    /\ query_references # QueryReferences(2, 3)
    /\ Len(printed_plan) = 6

\* C9: the k-th instance yielded is the k-th reference of the shuffled
\* vector, its repetition is the number of earlier instances of the same
\* reference (so a reference's repetitions increase in plan order), and over
\* the full plan the repetitions of every reference are exactly 0..repeat-1,
\* each once.
C9_RepetitionsDense ==
    /\ \A i \in DOMAIN printed_plan :
          /\ printed_plan[i].query_reference = query_references[i]
          /\ printed_plan[i].repetition =
                Cardinality({j \in 1..(i - 1) :
                    printed_plan[j].query_reference = printed_plan[i].query_reference})
    /\ pc = "done" =>
          \A ref \in 0..(nqueries - 1) :
              /\ RepetitionsOf(printed_plan, ref) = 0..(repeat - 1)
              /\ Cardinality({i \in DOMAIN printed_plan :
                                printed_plan[i].query_reference = ref}) = repeat

\* C9 witness: a shuffle has put two instances of the second query in front
\* of the first query's, and the full plan was printed.
C9_Witness ==
    /\ pc = "done"
    /\ nqueries = 2
    /\ repeat = 3
    /\ printed_plan[1] = [query_reference |-> 1, repetition |-> 0]
    /\ printed_plan[2] = [query_reference |-> 1, repetition |-> 1]
    /\ printed_plan[3] = [query_reference |-> 0, repetition |-> 0]

\* C10: the step in which a task's run returns, with Ok or with any error,
\* and the step that drops a task's future, put the client the task holds
\* back at the end of the idle list; every client ever made is idle or held
\* by a task that has not ended; once no task is running every client is idle.
C10_ClientReturned ==
    [][/\ \A t \in DOMAIN tasks :
            (tasks[t].st = "running" /\ tasks'[t].st \in Ended) =>
                items' = Append(items, tasks[t].client)
       /\ Len(items') + Cardinality({t \in DOMAIN tasks' : tasks'[t].client # 0})
            = n_clients'
       /\ \A t \in DOMAIN tasks' :
            tasks'[t].client # 0 => tasks'[t].st = "running"
       /\ (\A t \in DOMAIN tasks' : tasks'[t].st # "running") =>
            Len(items') = n_clients']_vars

\* C10 witness: with output files, one run has failed in the renaming of its
\* file and another has returned Ok, and both clients are idle again.
C10_Witness ==
    /\ output_mode = "Outdir"
    /\ n_clients = 2
    /\ Len(items) = 2
    /\ \E t \in DOMAIN tasks : tasks[t].run_query_result = ErrResult("renaming")
    /\ \E t \in DOMAIN tasks : tasks[t].run_query_result.kind = "Ok"

\* The clients held by the guards of the tasks.
HeldClients == {tasks[t].client : t \in {u \in DOMAIN tasks : tasks[u].client # 0}}

\* The clients in the idle list.
IdleClients == {items[i] : i \in DOMAIN items}

\* C11: however the get_item calls and the guard drops of the tasks
\* interleave, no client is held by two tasks, no client is both idle and
\* held, the idle list holds no client twice, and every client new_item has
\* made is idle or held.
C11_PoolIsConsistent ==
    /\ \A t, u \in DOMAIN tasks :
          (t # u /\ tasks[t].client # 0) => tasks[t].client # tasks[u].client
    /\ HeldClients \cap IdleClients = {}
    /\ \A i, j \in DOMAIN items : i # j => items[i] # items[j]
    /\ HeldClients \cup IdleClients = 1..n_clients

\* C11 witness: two tasks hold the two clients of the pool at the same time,
\* one of them a client that an earlier task has returned.
C11_Witness ==
    /\ n_clients = 2
    /\ items = <<>>
    /\ Len(tasks) = 3
    /\ tasks[1].st = "reaped"
    /\ tasks[2].client # 0
    /\ tasks[3].client # 0

\* C12 as stated: the writer never drops a queued record, so every record
\* that leaves the channel is the row appended to the log in that step.
C12_Original ==
    [][Len(chan') < Len(chan) =>
            /\ rows' = Append(rows, Head(chan))
            /\ chan' = Tail(chan)]_vars

\* C12 amended: a record enters the channel at its tail, in the call of
\* await_one_task that reaps its task, whatever the task's place in the plan;
\* the only row ever appended to the log is the oldest queued record, which
\* leaves the channel in the same step; and queued records are discarded
\* only when the writer thread ends on a failed write or with the process of
\* a run that returned an error without joining it.
C12_RowsInArrivalOrder ==
    [][/\ rows' # rows =>
            /\ chan # <<>>
            /\ rows' = Append(rows, Head(chan))
            /\ chan' = Tail(chan)
       /\ chan' # chan =>
            \/ /\ chan # <<>>
               /\ chan' = Tail(chan)
               /\ rows' = Append(rows, Head(chan))
            \/ /\ rows' = rows
               /\ \E t \in DOMAIN tasks :
                     /\ tasks[t].st = "ready"
                     /\ tasks'[t].st = "reaped"
                     /\ chan' = Append(chan,
                            LogCsvRecord(tasks[t].query_reference_with_repetition,
                                         tasks[t].run_query_result))
            \/ /\ rows' = rows
               /\ chan' = <<>>
               /\ writer = "running"
               /\ writer' \in {"failed", "killed"}
       /\ writer' = "finished" => chan' = <<>>]_vars

\* C12 witness: the log holds the row of the plan's second entry in front of
\* the row of its first entry.
C12_Witness ==
    /\ Len(tasks) = 2
    /\ Len(rows) = 2
    /\ rows[1].query_reference = tasks[2].query_reference_with_repetition.query_reference
    /\ rows[1].repetition = tasks[2].query_reference_with_repetition.repetition
    /\ rows[2].query_reference = tasks[1].query_reference_with_repetition.query_reference
    /\ rows[2].repetition = tasks[1].query_reference_with_repetition.repetition
    /\ writer = "finished"

\* C13: whenever main is in await_one_task and a task has completed, the call
\* that reaps it and hands its record to the log writer can be taken, however
\* many records are queued and whether the writer thread is running, has
\* failed or has not written anything yet; the step appends the record to
\* the queue (or returns the send error of a channel whose receiver is gone)
\* and writes no row and does not change the writer thread's state.
C13_SendNeverWaits ==
    (pc \in {"await_cap", "drain"} /\ writer # "none") =>
        \A t \in DOMAIN tasks :
            tasks[t].st = "ready" =>
                ENABLED (/\ \/ AwaitCap(t, TRUE)
                            \/ Drain(t, TRUE)
                         /\ rows' = rows
                         /\ writer' = writer
                         /\ IF writer = "failed"
                            THEN chan' = chan /\ acc'.outcome = "send"
                            ELSE chan' = Append(chan,
                                    LogCsvRecord(tasks[t].query_reference_with_repetition,
                                                 tasks[t].run_query_result)))

\* C13 witness: a second record was sent while the first was still queued
\* and the writer thread had not written anything.
C13_Witness ==
    /\ Len(chan) = 2
    /\ rows = <<>>
    /\ writer = "running"
    /\ pc = "drain"

\* The (line, repetition) pairs of a sequence of records.
InstancesOf(recs) ==
    {[query_reference |-> recs[i].query_reference,
      repetition |-> recs[i].repetition] : i \in DOMAIN recs}

\* The instances of the plan: every reference with the repetitions 0..repeat-1.
PlanInstances ==
    {[query_reference |-> q, repetition |-> k] :
        q \in 0..(nqueries - 1), k \in 0..(repeat - 1)}

\* C14: when a run with a log file has returned Ok (both loops ended without
\* an abort and finish() returned Ok), the log holds nqueries * repeat data
\* rows whose (line, repetition) pairs are pairwise distinct and are exactly
\* the plan's instances.
C14_OneRowPerInstance ==
    (pc = "done" /\ writer = "finished") =>
        /\ Len(rows) = nqueries * repeat
        /\ \A i, j \in DOMAIN rows :
              i # j => <<rows[i].query_reference, rows[i].repetition>>
                         # <<rows[j].query_reference, rows[j].repetition>>
        /\ InstancesOf(rows) = PlanInstances
        /\ InstancesOf(rows) =
              {tasks[t].query_reference_with_repetition : t \in DOMAIN tasks}

\* C14 witness: a logged run of one query repeated twice has returned Ok
\* with one Ok row and one Err row.
C14_Witness ==
    /\ pc = "done"
    /\ writer = "finished"
    /\ nqueries = 1
    /\ repeat = 2
    /\ Len(rows) = 2
    /\ \E i \in DOMAIN rows : rows[i].result.kind = "Err"
    /\ \E i \in DOMAIN rows : rows[i].result.kind = "Ok"

\* The number of times main has called logger.finish(): once it is past the
\* drain loop of a run with a log file, never before.
FinishCalls ==
    IF writer # "none" /\ pc \in {"finish", "done", "finish_failed"} THEN 1 ELSE 0

\* C15: on every exit path of an iteration run that created a LogCsvWriter,
\* finish() has been executed exactly once when main returns: the sender
\* was dropped by it and the writer thread was joined, so the thread has
\* ended and its result was surfaced.
C15_FinishOnEveryExit ==
    (Terminated /\ writer # "none") =>
        /\ FinishCalls = 1
        /\ writer \in {"finished", "failed"}

\* C16: while a log is being written, the byte length in the result of a
\* task that completed Ok (the length its log record carries) is the number
\* of body bytes streamed, under each output mode: every request outcome that
\* makes run return this result has a body of that many bytes.
C16_LengthIsBodyLength ==
    writer # "none" =>
        \A t \in DOMAIN tasks :
            LET r == tasks[t].run_query_result
            IN  (tasks[t].st = "ready" /\ r.kind = "Ok") =>
                    \A env \in Envs :
                        Run(output_mode, env) = r => r.outsize = env.nchunks

\* The request of `env` does not get to the end of its body under `mode`:
\* the send fails, a chunk cannot be read, or a chunk cannot be written to
\* the output.
Interrupted(mode, env) ==
    \/ env.fail \in {"send", "read"}
    \/ env.fail = "write" /\ mode # "Drop" /\ env.nchunks > 0

\* C17: a task's result is Ok only if no request outcome that interrupts the
\* body yields it, and every interrupted request yields an Err result, which
\* carries no status and no length; the call of await_one_task that reaps an
\* Err result counts a hard error, leaves the tally as it is, and the record
\* it sends (if any) is an Err record.
C17_NoPartialSuccess ==
    [][\A t \in DOMAIN tasks' :
          LET r == tasks'[t].run_query_result
          IN  /\ (tasks'[t].st = "ready" /\ r.kind = "Ok") =>
                    \A env \in Envs :
                        Interrupted(output_mode, env) => Run(output_mode, env) # r
              /\ (tasks'[t].st = "ready" /\ r.kind = "Err") =>
                    r.status = 0 /\ r.outsize = 0
              /\ (t \in DOMAIN tasks /\ tasks[t].st = "ready"
                    /\ tasks[t].run_query_result.kind = "Err"
                    /\ tasks'[t].st = "reaped") =>
                    /\ acc'.status_tally = acc.status_tally
                    /\ acc'.num_errors = acc.num_errors + 1
                    /\ acc'.sent # NoRecord => acc'.sent.result.kind = "Err"]_vars

\* C17 witness: with output to stdout, a request whose body could not be
\* read to the end was reaped as a hard error and logged as Err, and nothing
\* was tallied.
C17_Witness ==
    /\ output_mode = "Print"
    /\ acc.sent.result = ErrResult("reading the result")
    /\ acc.num_errors = 1
    /\ acc.status_tally = EmptyTally
    /\ Len(rows) = 1

\* The record a data row of the file was written from, while the row is as
\* write_row wrote it.
WrittenFrom(k) == records[k]

\* C18: a row written by write_row in normal mode and read back as it was
\* written is parsed by parse_row into a record equal to the one written in
\* every field.
C18_RoundTrip ==
    (format = "normal" /\ lpc \in {"reading", "read_failed"} /\ nread > 0
        /\ file_rows[nread] = WriteRow(WrittenFrom(nread), format)) =>
            /\ next_item.kind = "Record"
            /\ next_item.record = WrittenFrom(nread)

C20_ColumnErrorNamesRow ==
    (lpc \in {"reading", "read_failed"} /\ nread > 0
        /\ Len(file_rows[nread]) # NUM_COLS) =>
            /\ lpc = "read_failed"
            /\ next_item.kind \notin {"Record", "None"}
            /\ next_item.names_file
            /\ next_item.index = nread

\* The number of rows sums_from_file has taken from the first and from the
\* second log.
RowsReadA ==
    IF cpc = "options" \/ cmp.fatal = "missing --queries option, needed for --ignore"
    THEN 0
    ELSE IF cpc = "read_a" THEN cmp.k ELSE Len(log_a)
RowsReadB ==
    IF cpc \in {"options", "read_a"} \/ RowsReadA = 0 THEN 0
    ELSE IF cpc = "read_b" THEN cmp.k ELSE Len(log_b)

\* Row j of the log is an Ok row of a reference the filter does not ignore.
KeptOk(log, j) ==
    /\ log[j].result.kind = "Ok"
    /\ ~(cmp_opts.ignore[1] = "Some" /\ log[j].query_reference \in cmp_opts.ignore[2])

\* The (status, length, checksum) of an Ok row.
Triple(row) == <<row.result.status, row.result.length, row.result.crc>>

\* The first kept Ok row of row j's reference lies before row j.
Later(log, j) ==
    \E f \in 1..(j - 1) :
        KeptOk(log, f) /\ log[f].query_reference = log[j].query_reference

\* The index of the first kept Ok row of reference q among the first k rows
\* (0: there is none).
FirstOk(log, k, q) ==
    LET js == {j \in 1..k : KeptOk(log, j) /\ log[j].query_reference = q}
    IN  IF js = {} THEN 0 ELSE CHOOSE j \in js : \A o \in js : j <= o

\* The later kept Ok rows among the first k whose triple is, or is not, the
\* one of the first kept Ok row of their reference, in log order.
LaterRows(log, k, equal) ==
    SelectSeq([j \in 1..k |-> j],
              LAMBDA j : /\ KeptOk(log, j)
                         /\ Later(log, j)
                         /\ (Triple(log[j]) =
                               Triple(log[FirstOk(log, k, log[j].query_reference)]))
                              = equal)

\* The Sums of a log after its first k rows, as C21 states it.
FirstOccurrenceTable(s, log, k) ==
    /\ \A q \in 0..(cmp_opts.nqueries - 1) :
          LET f == FirstOk(log, k, q)
          IN  IF f = 0
              THEN AutoVecGetCopy(s.seen, q) = 0
              ELSE /\ q < SumsLen(s)
                   /\ AutoVecGetCopy(s.seen, q) > 0
                   /\ AutoVecGetCopy(s.sums, q) = Triple(log[f])
    /\ s.successes = Len(LaterRows(log, k, TRUE))
    /\ LET differing == LaterRows(log, k, FALSE)
       IN  s.errors = [n \in 1..Len(differing) |->
                        [reference |->
                           [query_reference |-> log[differing[n]].query_reference,
                            repetition |-> log[differing[n]].repetition],
                         crc |-> Triple(log[differing[n]])]]

\* C21: while a log is reconciled, after any number of its rows the table
\* entry of every reference is the (status, length, checksum) of its first
\* non-ignored Ok row among them, whatever rows came later; the stable count
\* is the number of later non-ignored Ok rows whose triple equals that of the
\* first; and the defects are, in log order, one NonMatchingCrc for each
\* later non-ignored Ok row whose triple differs, carrying that row's
\* reference, repetition and triple.
C21_FirstOccurrenceTable ==
    /\ FirstOccurrenceTable(sums_a, log_a, RowsReadA)
    /\ FirstOccurrenceTable(sums_b, log_b, RowsReadB)

\* A log has been read in which the first row of a reference was followed
\* by a row that differs and by a row that equals it.
C21_Witness ==
    /\ cpc = "read_b"
    /\ sums_a.successes >= 1
    /\ Len(sums_a.errors) >= 1
    /\ log_a[1].result.kind = "Ok"
    /\ Triple(log_a[1]) # Triple(log_a[2])

\* The first log is the log of one query run with --repeat 2 whose two
\* responses differ, it is reconciled without a filter and has been read.
TwoDifferingRepetitions ==
    /\ cmp_opts.nqueries = 1
    /\ cmp_opts.ignore = None
    /\ Len(log_a) = 2
    /\ log_a[1].result.kind = "Ok"
    /\ log_a[2].result.kind = "Ok"
    /\ Triple(log_a[1]) # Triple(log_a[2])
    /\ RowsReadA = 2

\* C22 as stated: such a log gives exactly one defect, and the defect
\* carries repetition 1 whatever the order of the two rows.
C22_Original ==
    TwoDifferingRepetitions =>
        /\ Len(sums_a.errors) = 1
        /\ sums_a.errors[1].reference.repetition = 1

\* C22: for the log of one query run with --repeat 2 whose two responses
\* differ, the reconciler records exactly one non-matching-checksum defect;
\* it carries the repetition and the triple of the row that comes second in
\* the log, which is repetition 1 when the rows are in plan order and
\* repetition 0 when the second repetition was logged first.
C22_DefectAtSecondRow ==
    TwoDifferingRepetitions =>
        /\ Len(sums_a.errors) = 1
        /\ sums_a.errors[1].reference =
              [query_reference |-> 0, repetition |-> log_a[2].repetition]
        /\ sums_a.errors[1].crc = Triple(log_a[2])
        /\ sums_a.errors[1].reference.repetition =
              (IF log_a[1].repetition = 0 THEN 1 ELSE 0)

\* The two rows were logged in the opposite order, and the log has been read.
C22_Witness ==
    /\ TwoDifferingRepetitions
    /\ log_a[1].repetition = 1
    /\ log_a[2].repetition = 0
    /\ cpc = "read_b"

\* The references of the first log that have a non-ignored Ok row.
SeenReferences ==
    {q \in 0..(cmp_opts.nqueries - 1) : FirstOk(log_a, Len(log_a), q) # 0}

\* The compare command has ended: with a fatal error, a failed assertion, or
\* with its exit status.
CompareEnded == cpc \in {"fatal", "panicked", "exit0", "exit1"}

\* C23: when a log is compared against itself, no difference line is ever
\* printed and no cross-run divergence is counted, the comparison does not
\* end fatally on the logs (only on --ignore given without --queries), every
\* reference with a non-ignored Ok row is counted as same, and the exit
\* status is nonzero only when the log has intra-run defects, which are then
\* counted once for each of the two copies.
C23_SelfComparison ==
    log_a = log_b =>
        /\ cmp.printed = <<>>
        /\ cmp.summary # NoSummary => cmp.summary.num_errors = 0
        /\ cpc # "panicked"
        /\ cpc = "fatal" => cmp.fatal = "missing --queries option, needed for --ignore"
        /\ cpc \in {"errors", "exit0", "exit1"} =>
              /\ cmp.num_same = Cardinality(SeenReferences)
              /\ cmp.summary.num_same = Cardinality(SeenReferences)
        /\ cpc \in {"exit0", "exit1"} =>
              cmp.num_errors = 2 * Len(sums_a.errors)
        /\ cpc = "exit1" => Len(sums_a.errors) > 0
        /\ cpc = "exit0" => Len(sums_a.errors) = 0

\* A log with two references, one of them with an intra-run defect, has been
\* compared against itself.
C23_Witness ==
    /\ log_a = log_b
    /\ cpc = "exit1"
    /\ cmp.num_same >= 1
    /\ Len(sums_a.errors) >= 1

\* The first non-ignored Ok triple of reference index q in a log (None: the
\* log has no such row).
FirstTriple(log, q) ==
    LET f == FirstOk(log, Len(log), q)
    IN  IF f = 0 THEN None ELSE Some(Triple(log[f]))

\* The reference indices below the table length by class.
TableIndices == 0..(SumsLen(sums_a) - 1)
SameIndices ==
    {q \in TableIndices : /\ FirstTriple(log_a, q) # None
                          /\ FirstTriple(log_a, q) = FirstTriple(log_b, q)}
DivergentIndices ==
    {q \in TableIndices : /\ FirstTriple(log_a, q) # None
                          /\ FirstTriple(log_b, q) # None
                          /\ FirstTriple(log_a, q) # FirstTriple(log_b, q)}
NeitherIndices ==
    {q \in TableIndices : /\ FirstTriple(log_a, q) = None
                          /\ FirstTriple(log_b, q) = None}

\* The difference lines of the divergent indices, ascending.
DivergenceLines ==
    LET qs == SelectSeq([n \in 1..SumsLen(sums_a) |-> n - 1],
                        LAMBDA q : q \in DivergentIndices)
    IN  [n \in 1..Len(qs) |-> [line |-> qs[n] + 1,
                               a |-> FirstTriple(log_a, qs[n])[2],
                               b |-> FirstTriple(log_b, qs[n])[2]]]

\* C24: when the comparison has printed its summary, every reference index
\* below the table length is in exactly one of the classes same (non-ignored
\* Ok rows in both logs, equal first triples), divergent (in both, different
\* first triples) and neither (in neither log); the summary's same and
\* difference counts and the count of unseen indices are the sizes of these
\* classes and add up to the table length; and the difference lines printed
\* are those of the divergent indices, each with both logs' status, length
\* and checksum.
C24_ExactlyOneClass ==
    cpc \in {"errors", "exit0", "exit1"} =>
        /\ SumsLen(sums_a) = SumsLen(sums_b)
        /\ SameIndices \cup DivergentIndices \cup NeitherIndices = TableIndices
        /\ cmp.summary.num_same = Cardinality(SameIndices)
        /\ cmp.summary.num_errors = Cardinality(DivergentIndices)
        /\ cmp.num_ignored_counted = Cardinality(NeitherIndices)
        /\ cmp.summary.num_same + cmp.summary.num_errors + cmp.num_ignored_counted
              = SumsLen(sums_a)
        /\ cmp.printed = DivergenceLines

\* A comparison has printed its summary with a same, a divergent and an
\* unseen index below the table length.
C24_Witness ==
    /\ cpc = "errors"
    /\ SameIndices # {}
    /\ DivergentIndices # {}
    /\ NeitherIndices # {}

\* The references that have a non-ignored Ok row in exactly one of the logs.
OneSidedIndices ==
    {q \in 0..(cmp_opts.nqueries - 1) :
        (FirstTriple(log_a, q) = None) # (FirstTriple(log_b, q) = None)}

\* C25: when some reference has a non-ignored Ok row in exactly one of the
\* two logs, the comparison never prints a summary and never exits with a
\* status of its own: it is still reading or comparing, or has ended with a
\* fatal error; and the loop never gets past such a reference, so it is
\* counted neither as same, nor as a difference, nor as unseen.
C25_OneSidedIsFatal ==
    OneSidedIndices # {} =>
        /\ cpc \in {"options", "read_a", "read_b", "loop", "fatal"}
        /\ cmp.summary = NoSummary
        /\ \A q \in OneSidedIndices : cmp.i <= q

\* The loop has counted an index and then met a reference that only one of
\* the logs has an Ok row for.
C25_Witness ==
    /\ OneSidedIndices # {}
    /\ cpc = "fatal"
    /\ cmp.fatal = "bug?: query line was seeen"
    /\ cmp.i >= 1

\* The cross-run divergences and the intra-run defects of the two logs,
\* counted from their rows.
TotalDefects ==
    Cardinality(DivergentIndices)
        + Len(LaterRows(log_a, Len(log_a), FALSE))
        + Len(LaterRows(log_b, Len(log_b), FALSE))

\* C26 as stated: the command, however it ends, has exited with success
\* exactly when the divergences and the intra-run defects of both logs add
\* up to zero.
C26_Original ==
    CompareEnded => (cpc = "exit0" <=> TotalDefects = 0)

\* C26: a comparison that has printed its summary ends with an exit status
\* of its own, which is success exactly when the cross-run divergences and
\* the intra-run defects of both logs add up to zero, and failure when the
\* total is nonzero; every other ending is a fatal error (or a failed
\* assertion), whatever the number of defects.
C26_ExitReflectsDefects ==
    /\ cpc \in {"exit0", "exit1"} =>
          /\ cmp.summary # NoSummary
          /\ cmp.num_errors = TotalDefects
          /\ cpc = "exit0" <=> TotalDefects = 0
    /\ (CompareEnded /\ cmp.summary = NoSummary) => cpc \in {"fatal", "panicked"}
    /\ (CompareEnded /\ cmp.summary # NoSummary) => cpc \in {"exit0", "exit1"}

\* A comparison without a divergence has exited with failure for the one
\* intra-run defect of its first log.
C26_Witness ==
    /\ cpc = "exit1"
    /\ cmp.printed = <<>>
    /\ Len(sums_a.errors) = 1
    /\ sums_b.errors = <<>>

\* The comparison runs with --queries and an ignore filter over two logs
\* that have an Ok row for every reference of the corpus, and has printed
\* its summary.
FilteredSummary ==
    /\ cmp_opts.queries
    /\ cmp_opts.ignore[1] = "Some"
    /\ \A j \in DOMAIN log_a : log_a[j].result.kind = "Ok"
    /\ \A j \in DOMAIN log_b : log_b[j].result.kind = "Ok"
    /\ cmp.summary # NoSummary

\* C27: with an ignore filter, the references whose query matches it are in
\* none of the same count, the difference count and the intra-run defects of
\* the two logs, and the summary's number of ignored queries is the number
\* of the corpus references that match the filter, wherever they lie in the
\* corpus.
C27_IgnoredAreReported ==
    FilteredSummary =>
        /\ cmp.summary.num_same = Cardinality(SameIndices \ cmp_opts.ignore[2])
        /\ cmp.summary.num_errors = Cardinality(DivergentIndices \ cmp_opts.ignore[2])
        /\ \A n \in DOMAIN sums_a.errors :
              sums_a.errors[n].reference.query_reference \notin cmp_opts.ignore[2]
        /\ \A n \in DOMAIN sums_b.errors :
              sums_b.errors[n].reference.query_reference \notin cmp_opts.ignore[2]
        /\ cmp.summary.num_ignored_calculated = Cardinality(cmp_opts.ignore[2])

\* The rows of a log in the order p.
Permuted(log, p) == [k \in DOMAIN log |-> log[p[k]]]

\* The class of every reference of the corpus under two tables.
ClassesOf(sa, sb) ==
    [q \in 0..(cmp_opts.nqueries - 1) |->
        IF Seen(sa, q) /\ Seen(sb, q)
        THEN IF AutoVecGetCopy(sa.sums, q) = AutoVecGetCopy(sb.sums, q)
             THEN "same" ELSE "divergent"
        ELSE IF ~Seen(sa, q) /\ ~Seen(sb, q) THEN "neither" ELSE "one-sided"]

\* The outcome of the comparison that has ended: the class of every
\* reference, the fatal error if any, and the difference lines in the order
\* printed.
OutcomeReached ==
    [classes |-> ClassesOf(sums_a, sums_b), fatal |-> cmp.fatal,
     printed |-> cmp.printed]

\* The outcome of the compare command on the logs la and lb.
OutcomeOf(la, lb) ==
    LET bails == cmp_opts.ignore[1] = "Some" /\ ~cmp_opts.queries
        sa == IF bails THEN SumsNew ELSE SumsFromFile(cmp_opts, la).sums
        sb == IF bails THEN SumsNew ELSE SumsFromFile(cmp_opts, lb).sums
        c == Compare(cmp_opts, la, lb)
    IN  [classes |-> ClassesOf(sa, sb), fatal |-> c.fatal, printed |-> c.printed]

\* Every order of the rows of the two logs gives the outcome reached.
SameOutcomeInEveryOrder ==
    \A pa \in Permutations(DOMAIN log_a), pb \in Permutations(DOMAIN log_b) :
        OutcomeOf(Permuted(log_a, pa), Permuted(log_b, pb)) = OutcomeReached

\* C28 as stated: the outcome of a comparison that has ended is the outcome
\* for every order of the data rows of the two logs.
C28_Original ==
    CompareEnded => SameOutcomeInEveryOrder

\* The log has no two non-ignored Ok rows of one reference with different
\* triples.
Stable(log) == LaterRows(log, Len(log), FALSE) = <<>>

\* C28: the difference lines are printed in ascending order of the reference
\* index, whatever the order of the rows; and when every reference has the
\* same triple in all its non-ignored Ok rows within each log, the outcome
\* (the class of every reference, the fatal error, the difference lines) is
\* the same for every order of the data rows of the two logs.
C28_OrderIndependentWhenStable ==
    /\ \A m, n \in DOMAIN cmp.printed :
          m < n => cmp.printed[m].line < cmp.printed[n].line
    /\ (CompareEnded /\ Stable(log_a) /\ Stable(log_b)) => SameOutcomeInEveryOrder

\* A comparison of stable logs, the first with its rows out of plan order,
\* has ended after reporting a divergence.
C28_Witness ==
    /\ CompareEnded
    /\ Stable(log_a)
    /\ Stable(log_b)
    /\ Len(log_a) >= 2
    /\ log_a[1].query_reference > log_a[2].query_reference
    /\ cmp.printed # <<>>

\* C29: when main has ended with a setup error (the endpoint URL, the output
\* directory, the queries file or the log file), no HTTP request has been
\* sent, with and without --warm-up.
C29_SetupErrorBeforeAnyRequest ==
    pc = "setup_failed" => setup.requests = 0

\* The errors of RunQuery::run for a failed remove_file and a failed rename.
CleanupFailures == {ErrResult("removing output file"), ErrResult("renaming")}

\* C30: the call of await_one_task that reaps a task whose run failed to
\* delete or to rename its output file makes main return the error, whatever
\* --max-errors is: the run is aborted and no further entry is submitted.
C30_CleanupFailureAborts ==
    [][\A t \in DOMAIN tasks :
          (/\ tasks[t].st = "ready"
           /\ tasks[t].run_query_result \in CleanupFailures
           /\ tasks'[t].st = "reaped")
          => pc' = "aborted"]_vars

\* A call of run in output-directory mode has returned after the body was
\* streamed to its end.
StreamedToFile == rq.pc = "returned" /\ rq.mode = "Outdir" /\ rq.streamed

\* The instance's name in the output directory, without a suffix.
PlainName == OutputFileName(rq.entry, rq.show_repetition)

\* C31 as stated: once the response has been streamed to its end, an empty
\* 200 file is gone, every other file has the status appended to its name,
\* and no file has the plain name.
C31_Original ==
    StreamedToFile =>
        /\ \A f \in rq.dir : f.name # PlainName
        /\ IF rq.env.nchunks = 0 /\ rq.env.status = 200
           THEN rq.dir = {}
           ELSE rq.dir = {[name |-> AddExtension(PlainName, rq.env.status),
                           len |-> rq.env.nchunks]}

\* C31: in output-directory mode, when run has returned Ok the file of an
\* empty 200 response is deleted, and in every other case (a non-empty 200,
\* any other status with or without bytes) the file, with all bytes of the
\* body, has the name with a dot and the status appended, and no file has
\* the plain name; when flushing, removing or renaming fails after the body
\* was streamed, run returns that error and the file stays under its plain
\* name.
C31_CleanupWhenRunSucceeds ==
    StreamedToFile =>
        IF rq.result.kind = "Ok"
        THEN /\ \A f \in rq.dir : f.name # PlainName
             /\ IF rq.env.nchunks = 0 /\ rq.env.status = 200
                THEN rq.dir = {}
                ELSE rq.dir = {[name |-> AddExtension(PlainName, rq.env.status),
                                len |-> rq.env.nchunks]}
        ELSE /\ rq.result \in {ErrResult("flush"), ErrResult("removing output file"),
                               ErrResult("renaming")}
             /\ rq.dir = {[name |-> PlainName, len |-> rq.env.nchunks]}

\* An empty response with a status other than 200 has been renamed.
C31_Witness ==
    /\ StreamedToFile
    /\ rq.result.kind = "Ok"
    /\ rq.env.status # 200
    /\ rq.env.nchunks = 0
    /\ rq.dir # {}

\* Followed statement by statement, run returns what Run computes.
RunAgrees == rq.pc = "returned" => rq.result = Run(rq.mode, rq.env)

\* C32: when the bytes of a body have been added to the digest in
\* consecutive chunks of any sizes, empty chunks included, the finalized
\* checksum is the one of a digest to which the whole body was added in one
\* call.
C32_ChunkInvariant ==
    dg.pc = "done" =>
        dg.crc = Some(MyCrcFinalize(MyCrcAdd(MyCrcNew, dg.data)))

\* A body of three bytes has been hashed from three chunks, one of them
\* empty.
C32_Witness ==
    /\ dg.pc = "done"
    /\ Len(dg.data) = 3
    /\ Len(dg.sizes) = 3
    /\ \E k \in DOMAIN dg.sizes : dg.sizes[k] = 0

\* The check value of CRC-64/NVME: the checksum of the ASCII digits
\* "123456789" is 0xAE8B14860A799888.
CheckValue ==
    LET crc == MyCrcFinalize(MyCrcAdd(MyCrcNew, <<49, 50, 51, 52, 53, 54, 55, 56, 57>>))
        hex == <<10, 14, 8, 11, 1, 4, 8, 6, 0, 10, 7, 9, 9, 8, 8, 8>>
    IN  crc = {i \in RegBits : Bit(hex[16 - (i \div 4)], i % 4) = 1}

\* C33: once the warm-up run has returned, with a response or with an error,
\* main's counters, the status tally, the log channel and the log rows are
\* what they were at the start, the only client of the pool is idle, and
\* when main has ended with an error it is the error of a later statement.
C33_WarmUpLeavesRunUntouched ==
    setup.warm_result # NoResult =>
        /\ acc = InitAcc
        /\ twin = Decisions(InitAcc)
        /\ chan = <<>>
        /\ rows = <<>>
        /\ tasks = <<>>
        /\ HeldClients = {}
        /\ IdleClients = 1..n_clients
        /\ n_clients = 1
        /\ pc = "setup_failed" => setup.error # ""

\* The warm-up request has failed and main has reached the submission loop
\* with the log file open.
C33_Witness ==
    /\ setup.warm_result.kind = "Err"
    /\ pc = "loop"
    /\ writer = "running"
    /\ Len(query_references) > 0

\* The query count plus one is at most 2^32 - 1: the count's upper 32 bits
\* are zero and its lower 32 bits are not all ones.
PlusOneFitsU32(len) ==
    /\ \A k \in (U32Limbs + 1)..Len(len) : len[k] = 0
    /\ \E k \in 1..U32Limbs : len[k] # LimbBase - 1

\* C34: a corpus is rejected, with the size-limit error, exactly when its
\* query count plus one does not fit in 32 bits; every index of an accepted
\* corpus is unchanged by the conversion to u32, and the line number shown
\* for it, the index plus one, is computed without overflow.
C34_SizeLimit ==
    /\ corpus.pc \notin {"idle", "new"} =>
          /\ (corpus.pc = "rejected") <=> ~PlusOneFitsU32(corpus.len)
          /\ (corpus.pc = "rejected") <=> (corpus.error = ">= u32 lines in file")
    /\ corpus.pc \in {"pushed", "shown"} =>
          corpus.index = corpus.query_index \o <<0, 0>>
    /\ corpus.pc = "shown" =>
          /\ corpus.shown # "overflow"
          /\ Less(corpus.query_index, corpus.shown)

\* The last index of the largest corpus that is accepted, of 2^32 - 2
\* queries, has been shown as 2^32 - 2.
C34_Witness ==
    /\ corpus.pc = "shown"
    /\ corpus.len = <<LimbBase - 2, LimbBase - 1, 0, 0>>
    /\ corpus.query_index = <<LimbBase - 3, LimbBase - 1>>
    /\ corpus.shown = <<LimbBase - 2, LimbBase - 1>>

\* C35: the clients the factory has made are the idle and the held ones,
\* counted; their number never decreases; it grows only by one, in a step in
\* which a task's get_item finds the idle list empty; and it never exceeds
\* the cap of the run.
C35_PoolNeverShrinks ==
    /\ [](/\ n_clients = Len(items) + Cardinality(HeldClients)
          /\ n_clients <= concurrency)
    /\ [][/\ n_clients' >= n_clients
          /\ n_clients' # n_clients =>
                /\ items = <<>>
                /\ n_clients' = n_clients + 1
                /\ \E t \in DOMAIN tasks :
                      /\ tasks[t].st = "spawned"
                      /\ tasks'[t].client = n_clients']_vars

\* Under a cap of two, three tasks have run with the two clients of the
\* pool, which are both idle again.
C35_Witness ==
    /\ concurrency = 2
    /\ n_clients = 2
    /\ Len(items) = 2
    /\ Len(tasks) = 3
    /\ \A t \in DOMAIN tasks : tasks[t].st = "reaped"

\* Every plan entry has been submitted and reaped, and nothing is in flight.
AllReaped ==
    /\ pos = Len(query_references)
    /\ cur = NoEntry
    /\ Len(tasks) = nqueries * repeat
    /\ \A t \in DOMAIN tasks : tasks[t].st = "reaped"
    /\ running_tasks = 0

\* C36 as stated: a run that has ended has submitted and reaped every plan
\* entry, or was aborted on the error budget.
C36_Original ==
    Terminated => (AllReaped \/ acc.outcome = "too many errors")

\* C36 amended: when every request completes and main, the tasks and the
\* writer thread keep being scheduled, the run ends: with every plan entry
\* submitted and reaped, or aborted on the error budget, on a record that
\* could not be sent to the log writer, or on a time difference that could
\* not be computed.
C36_RunTerminates ==
    <>(/\ Terminated
       /\ \/ AllReaped
          \/ pc = "aborted" /\ acc.outcome \in {"too many errors", "send",
                                                "time difference"})

\* A run has ended on a time difference that could not be computed, within
\* its error budget and with plan entries that were never submitted.
C36_Witness ==
    /\ pc = "aborted"
    /\ acc.outcome = "time difference"
    /\ Len(tasks) < nqueries * repeat
    /\ acc.num_errors <= max_errors

\* main is inside a call of await_one_task, or about to make one in the
\* drain loop.
InAwaitOneTask == pc = "await_cap" \/ (pc = "drain" /\ running_tasks > 0)

\* C37: running_tasks is the number of spawned tasks whose handle has not
\* yielded its result to tasks.next(), it is never negative, and whenever
\* main is in await_one_task at least one such handle exists, so that
\* tasks.next() never yields None.
C37_CounterIsHandleCount ==
    /\ running_tasks = Cardinality(InFlight)
    /\ running_tasks >= 0
    /\ InAwaitOneTask => InFlight # {}

\* main is in the drain loop with two handles in the set, after a third
\* was reaped at the cap of two.
C37_Witness ==
    /\ pc = "drain"
    /\ concurrency = 2
    /\ running_tasks = 2
    /\ Len(tasks) = 3
    /\ tasks[2].st = "reaped"

\* The Ok rows of a log, in file order.
OkRows(log) == SelectSeq(log, LAMBDA row : row.result.kind = "Ok")

\* The log has rows for reference q, and all of them are Err rows.
ErrOnly(log, q) ==
    /\ \E j \in DOMAIN log : log[j].query_reference = q
    /\ \A j \in DOMAIN log :
          log[j].query_reference = q => log[j].result.kind = "Err"

\* C38: the Sums of a log (table, seen counters, stable count, defects) are
\* at every row those of the same rows with the Err rows left out; a
\* reference whose rows in a log are all Err has a seen counter of 0 there;
\* the loop counts it as unseen when the other log has no non-ignored Ok row
\* for it either, and the comparison ends fatally when the other log has one.
C38_ErrRowsLeaveNoTrace ==
    /\ sums_a = SumsFromFile(cmp_opts, OkRows(SubSeq(log_a, 1, RowsReadA))).sums
    /\ sums_b = SumsFromFile(cmp_opts, OkRows(SubSeq(log_b, 1, RowsReadB))).sums
    /\ \A q \in 0..(cmp_opts.nqueries - 1) :
          /\ ErrOnly(log_a, q) => AutoVecGetCopy(sums_a.seen, q) = 0
          /\ ErrOnly(log_b, q) => AutoVecGetCopy(sums_b.seen, q) = 0
          /\ (/\ ErrOnly(log_a, q) \/ ErrOnly(log_b, q)
              /\ q \in OneSidedIndices
              /\ CompareEnded) => cpc = "fatal"
    /\ cpc \in {"loop", "errors", "exit0", "exit1"} =>
          cmp.num_ignored_counted = Cardinality({q \in NeitherIndices : q < cmp.i})

\* Without a filter, a reference with only Err rows in both logs has been
\* counted as unseen by a comparison that ended with its exit status.
C38_Witness ==
    /\ cmp_opts.ignore = None
    /\ \E q \in 0..(cmp_opts.nqueries - 1) :
          /\ ErrOnly(log_a, q)
          /\ ErrOnly(log_b, q)
          /\ q < SumsLen(sums_a)
    /\ cpc \in {"exit0", "exit1"}
    /\ cmp.num_ignored_counted >= 1

\* C39: read back as it was written, a data row of a log written in
\* extended mode is never yielded as a record: the reader yields its
\* invalid-number-of-columns error for it and the caller's read ends at that
\* row, which is the first; the read of an extended log comes to its end
\* only when the log has no data row.
C39_ExtendedRowsRejected ==
    format = "extended" =>
        /\ (/\ lpc \in {"reading", "read_failed"}
            /\ nread > 0
            /\ file_rows[nread] = WriteRow(WrittenFrom(nread), format)) =>
                /\ Len(file_rows[nread]) = NUM_COLS + 1
                /\ next_item.kind = "ColumnsError"
                /\ lpc = "read_failed"
                /\ nread = 1
        /\ next_item.kind # "Record"
        /\ lpc = "read_done" => file_rows = <<>>

\* The read of an extended log of two rows, an Ok row and an Err row, has
\* ended at its first row with the column error.
C39_Witness ==
    /\ format = "extended"
    /\ lpc = "read_failed"
    /\ nread = 1
    /\ Len(file_rows) = 2
    /\ file_rows[1] = WriteRow(records[1], format)
    /\ records[1].result.kind = "Ok"
    /\ records[2].result.kind = "Err"
    /\ next_item.kind = "ColumnsError"

\* The kept Ok rows of reference q among the first k rows of the log.
KeptOkRows(log, k, q) ==
    {j \in 1..k : KeptOk(log, j) /\ log[j].query_reference = q}

\* The references with a kept Ok row among the first k rows of the log.
ReferencesIn(log, k) == {q \in 0..(cmp_opts.nqueries - 1) : KeptOkRows(log, k, q) # {}}

\* C40: at every row of a log the first-value table and the seen counters
\* have one length, one more than the highest reference with a non-ignored
\* Ok row so far (0 without one); a seen counter is the number of such rows
\* of its reference, held at 255 from the 255th on; the table keeps the
\* triple of the reference's first such row; and every other such row has
\* been counted as a later occurrence, stable or defect.
C40_LengthsAndSaturation ==
    LET k == RowsReadA
        refs == ReferencesIn(log_a, k)
    IN  /\ AutoVecLen(sums_a.sums) = AutoVecLen(sums_a.seen)
        /\ SumsLen(sums_a) =
              (IF refs = {} THEN 0
               ELSE 1 + (CHOOSE q \in refs : \A o \in refs : o <= q))
        /\ \A q \in 0..(cmp_opts.nqueries - 1) :
              LET n == Cardinality(KeptOkRows(log_a, k, q))
              IN  /\ AutoVecGetCopy(sums_a.seen, q) =
                        (IF n > 2 ^ 8 - 1 THEN 2 ^ 8 - 1 ELSE n)
                  /\ n > 0 => AutoVecGetCopy(sums_a.sums, q) =
                                 Triple(log_a[FirstOk(log_a, k, q)])
        /\ sums_a.successes + Len(sums_a.errors) =
              Cardinality(UNION {KeptOkRows(log_a, k, q) : q \in refs})
                  - Cardinality(refs)

\* The 257th Ok row of a reference, with another checksum than the first,
\* has been read and recorded as a defect, and a second reference was seen.
C40_Witness ==
    /\ RowsReadA = 2 ^ 8 + 1
    /\ Cardinality(KeptOkRows(log_a, RowsReadA, 0)) = 2 ^ 8
    /\ log_a[RowsReadA].query_reference = 0
    /\ log_a[RowsReadA].result = LogCsvResultOk(200, 12, 8)
    /\ Len(sums_a.errors) = 1
    /\ SumsLen(sums_a) = 2
====
